---- MODULE Spec2Model ----
(***************************************************************************)
(* A model of the streaming-metrics pipeline of the LLM comparison         *)
(* dashboard: the metrics corrector (OllamaService.calculateMetrics), the  *)
(* stream consumer (OllamaService / ApiService generateCompletion), the    *)
(* run orchestrator (ComparisonService.compareModels and the dashboard's   *)
(* handleCompare) and the performance-history buffer of the dashboard.     *)
(*                                                                         *)
(* The module holds one specification per component; each leaves the       *)
(* variables of the other components at their idle values.                 *)
(***************************************************************************)
EXTENDS Integers, Sequences, FiniteSets, TLC

(***************************************************************************)
(* JavaScript numbers.  Every number of the program is one record          *)
(*   [t, n, s, d]                                                          *)
(* t = "num": the finite value n * s / d (d # 0); integers have s = d = 1. *)
(* t = "undef", "nan", "inf", "ninf": undefined, NaN, +Infinity, -Infinity.*)
(* Quotients are kept unreduced, so that no product leaves TLC's integers. *)
(***************************************************************************)
V(n) == [t |-> "num", n |-> n, s |-> 1, d |-> 1]

Undefined == [t |-> "undef", n |-> 0, s |-> 1, d |-> 1]

NaN == [t |-> "nan", n |-> 0, s |-> 1, d |-> 1]

Infinity == [t |-> "inf", n |-> 0, s |-> 1, d |-> 1]

NegInfinity == [t |-> "ninf", n |-> 0, s |-> 1, d |-> 1]

IsNum(x) == x.t = "num"

IsInt(x) == x.t = "num" /\ x.s = 1 /\ x.d = 1

\* the sign of a finite value: -1, 0 or 1
Sgn(k) == IF k > 0 THEN 1 ELSE IF k < 0 THEN 0 - 1 ELSE 0

SignOf(x) == Sgn(x.n) * Sgn(x.s) * Sgn(x.d)

\* isFinite(x)
isFinite(x) == IsNum(x)

\* x > 0, x < 0, x >= 0 (every comparison with undefined or NaN is false)
JsGt0(x) == x.t = "inf" \/ (IsNum(x) /\ SignOf(x) > 0)

JsLt0(x) == x.t = "ninf" \/ (IsNum(x) /\ SignOf(x) < 0)

JsGe0(x) == x.t = "inf" \/ (IsNum(x) /\ SignOf(x) >= 0)

\* a >= b on integer operands; false when either is undefined or NaN
JsGe(a, b) == IsInt(a) /\ IsInt(b) /\ a.n >= b.n

\* a - b and a + b on integer operands; NaN when either is undefined or NaN
JsSub(a, b) == IF IsInt(a) /\ IsInt(b) THEN V(a.n - b.n) ELSE NaN

JsAdd(a, b) == IF IsInt(a) /\ IsInt(b) THEN V(a.n + b.n) ELSE NaN

\* Math.max(0, x): NaN when x is undefined or NaN
JsMax0(x) == IF IsInt(x) THEN (IF x.n > 0 THEN x ELSE V(0)) ELSE NaN

\* the truthiness of a number: false for undefined, NaN and 0
Truthy(x) == x.t \in {"inf", "ninf"} \/ (IsNum(x) /\ x.n # 0)

\* a || b
JsOr(a, b) == IF Truthy(a) THEN a ELSE b

\* x / k for an integer x and a positive literal k (1e9, 1e6, 1000)
JsOver(x, k) == IF IsInt(x) THEN [t |-> "num", n |-> x.n, s |-> 1, d |-> k] ELSE NaN

\* x * k for a quotient x = m / k' and a positive literal k (seconds to ms)
JsTimes(x, k) == IF IsNum(x) THEN [x EXCEPT !.s = x.s * k] ELSE NaN

\* c / r for an integer c and a duration r = n / d (s = 1)
JsDiv(c, r) ==
    IF ~(IsInt(c) /\ IsNum(r)) THEN NaN
    ELSE IF r.n = 0
         THEN (IF c.n > 0 THEN Infinity ELSE IF c.n < 0 THEN NegInfinity ELSE NaN)
         ELSE [t |-> "num", n |-> c.n, s |-> r.d, d |-> r.n * r.s]

(***************************************************************************)
(* Bounds of the model and constants of the program.                       *)
(***************************************************************************)
\* nanoseconds per second, per millisecond; milliseconds per second
NsPerSec == 1000000000

NsPerMs == 1000000

MsPerSec == 1000

\* characters per estimated token
CharsPerToken == 4

\* the longest generated text the corrector is tried on, in characters
MaxTextLen == 32

\* the most lines one response body holds, over all its chunks
MaxLines == 3

\* num_predict when the configuration sets no maxTokens
DefaultMaxTokens == 128

\* the least time between two throttled progress updates, ms
ThrottleMs == 50

\* the most points the performance history keeps
maxPoints == 100

\* updateInterval of the tick effect, in ms
updateInterval == 50

\* the most points appended in one comparison
MaxAppends == 150

\* the time step of the chart's interpolation, ms
timeStep == 50

\* the most interpolation steps between two points
MaxSteps == 20

\* how far after a single point its duplicate is placed, ms
DuplicateOffset == 100

\* the smoothing of AdvancedPerformanceChart, percent
smoothing == 55

\* the longest buffer the chart preprocessor is tried on
MaxChartLen == 3

(***************************************************************************)
(* The state.                                                              *)
(***************************************************************************)
VARIABLES
    \* the corrector tried on one input: calculateMetrics(stats, responseTime, text)
    corPc,            \* "input" before the call, "done" after it
    corStats,         \* the raw OllamaStats
    corResponseTime,  \* elapsed wall time, ms
    corText,          \* text.length
    corPrompt,        \* the length of the prompt the statistics are the answer to
    corMetrics,       \* the ModelMetrics returned
    \* one run of generateCompletion(prompt, onProgress)
    svc,              \* which service runs: "ollama13", "ollama08", "api12", "api09"
    maxTokens,        \* this.config.maxTokens
    now,              \* performance.now(), ms
    pc,               \* the position of the run
    nLines,           \* lines of the body read so far, over all chunks
    linesLeft,        \* lines of the current chunk not yet processed
    promptTokens,     \* the local promptTokens
    completionTokens, \* the local completionTokens
    totalTokens,      \* the local totalTokens
    lastStats,        \* the local lastStats
    finalResponse,    \* the local finalResponse: [seen |-> FALSE] is null
    lastCall,         \* the latest onProgress call: progress, metrics, time, kind
    prevCall,         \* the onProgress call before it (its metrics left out)
    result,           \* the metrics the promise resolved with
    cause,            \* why the promise rejected: "http", "network", "read"
    terminal,         \* the last parsed record with done = true, if any
    skipped,          \* whether a line of the body failed to parse and was skipped
    body,             \* the records of the body: whether a chunk ended inside one, the last with done = true
    \* one dashboard session and its comparisons
    dashboard,        \* which dashboard runs: "service" (part_014), "direct" (ComparisonDashboard.tsx)
    cmpSettings,      \* localStorage "model-settings": id -> "absent", "enabled", "disabled"
    svcConfigs,       \* this.configs of the ComparisonService, the same shape
    selectedModelIds, \* the dashboard's selection
    cmpPc,            \* "idle", "running" (isComparing), "resolved", "rejected"
    modelsToCompare,  \* the enabled selected models handleCompare computed
    endpoint,         \* what each endpoint does with the run of this comparison
    runs,             \* id -> "none", "pending", "ok", "failed", "thrown"
    responses,        \* id -> the value the run's promise resolved with
    errors,           \* the errors array: the ids whose message was pushed
    cmpResult,        \* the ComparisonResult of the comparison
    \* the performance-history buffer of one dashboard
    bufDashboard,       \* which dashboard: "tsx" (ComparisonDashboard.tsx), "part_014"
    isComparing,        \* the isComparing state
    performanceHistory, \* the buffer: the numbers of the points it holds
    appended,           \* points appended since the comparison started
    \* the chart preprocessor tried on one buffer
    chartVariant,     \* "tsx" (PerformanceChart.tsx), "part_003" (AdvancedPerformanceChart)
    chartPc,          \* "input" before useMemo ran, "done" after it
    chartData,        \* the data prop
    chartSelected,    \* the selectedModels prop
    chartOut,         \* processedData
    \* the live state of one dashboard: React state and what the closures captured
    dashVariant,      \* "tsx" (ComparisonDashboard.tsx), "part_014"
    dashSelected,     \* selectedModelIds
    dashComparing,    \* the isComparing state
    modelProgress,    \* the modelProgress state: id -> RunProgress entry
    dashResults,      \* the results state: id -> the model's final result
    dashHistory,      \* the performanceHistory state: the points, with their values
    rendered,         \* isComparing, modelProgress, results as the latest render captured them
    dashRuns,         \* id -> "none", "running", "ok", "failed"
    reported,         \* id -> the tokensPerSecond the model reported last in this comparison
    dashSteps,        \* progress callbacks, events and ticks so far
    comparisons,      \* comparisons started
    compareCalls,     \* handleCompare: the calls past the guard and not ended, whether one returned at the guard
    \* the tick effect of one dashboard in time
    tickComparing,    \* the isComparing state, as rendered
    toFire,           \* the time until the interval callback is due (negative: overdue)
    sinceUpdate,      \* performance.now() - lastUpdate, the timeDiff of the callback
    sinceTick,        \* the time since the latest tick point, or since the comparison started
    renderDue,        \* modelProgress was set and React has not rendered yet
    \* ComparisonService: the configurations, the services and the runs of compareModels
    poolConfigs,      \* this.configs.ollama: id -> the configuration, or absent
    namesInfo,        \* whether the answers of /api/show carry the name of the model
    poolServices,     \* this.services.ollama: the services in the order of the list
    poolRuns,         \* id -> the run of the latest comparison: its state, the service that issued it, its events
    poolCompares,     \* compareModels calls so far
    \* the GGUF server registry of server/index.ts
    ggufServers,      \* port -> the process registered for it, 0 for no entry
    procs,            \* the processes spawned so far: port and state
    ggufReply         \* the response to the latest request

corVars == <<corPc, corStats, corResponseTime, corText, corPrompt, corMetrics>>

runVars == <<svc, maxTokens, now, pc, nLines, linesLeft, promptTokens, completionTokens, totalTokens, lastStats, finalResponse, lastCall, prevCall, result, cause, terminal, skipped, body>>

cmpVars == <<dashboard, cmpSettings, svcConfigs, selectedModelIds, cmpPc, modelsToCompare, endpoint, runs, responses, errors, cmpResult>>

bufVars == <<bufDashboard, isComparing, performanceHistory, appended>>

chartVars == <<chartVariant, chartPc, chartData, chartSelected, chartOut>>

dashVars == <<dashVariant, dashSelected, dashComparing, modelProgress, dashResults, dashHistory, rendered, dashRuns, reported, dashSteps, comparisons, compareCalls>>

tickVars == <<tickComparing, toFire, sinceUpdate, sinceTick, renderDue>>

poolVars == <<poolConfigs, namesInfo, poolServices, poolRuns, poolCompares>>

ggufVars == <<ggufServers, procs, ggufReply>>

vars == <<corVars, runVars, cmpVars, bufVars, chartVars, dashVars, tickVars, poolVars, ggufVars>>

\* the variables each component leaves alone
notCorVars == <<runVars, cmpVars, bufVars, chartVars, dashVars, tickVars, poolVars, ggufVars>>

notRunVars == <<corVars, cmpVars, bufVars, chartVars, dashVars, tickVars, poolVars, ggufVars>>

notCmpVars == <<corVars, runVars, bufVars, chartVars, dashVars, tickVars, poolVars, ggufVars>>

notBufVars == <<corVars, runVars, cmpVars, chartVars, dashVars, tickVars, poolVars, ggufVars>>

notChartVars == <<corVars, runVars, cmpVars, bufVars, dashVars, tickVars, poolVars, ggufVars>>

notDashVars == <<corVars, runVars, cmpVars, bufVars, chartVars, tickVars, poolVars, ggufVars>>

notTickVars == <<corVars, runVars, cmpVars, bufVars, chartVars, dashVars, poolVars, ggufVars>>

notPoolVars == <<corVars, runVars, cmpVars, bufVars, chartVars, dashVars, tickVars, ggufVars>>

notGgufVars == <<corVars, runVars, cmpVars, bufVars, chartVars, dashVars, tickVars, poolVars>>

(***************************************************************************)
(* Metrics and raw statistics.                                             *)
(***************************************************************************)
\* a ModelMetrics value
Metrics(rt, tps, total, prompt, completion, proc) ==
    [responseTime |-> rt, tokensPerSecond |-> tps, totalTokens |-> total,
     promptTokens |-> prompt, completionTokens |-> completion, processingTime |-> proc]

\* the all-zero metrics of the initial report and of an error response
ZeroMetrics == Metrics(V(0), V(0), V(0), V(0), V(0), V(0))

\* the statistics fields of an Ollama record
Stats(ec, ed, pec, ped, td) ==
    [eval_count |-> ec, eval_duration |-> ed, prompt_eval_count |-> pec,
     prompt_eval_duration |-> ped, total_duration |-> td]

\* lastStats = {}
EmptyStats == Stats(Undefined, Undefined, Undefined, Undefined, Undefined)

\* the token counts and durations the corrector is tried on: absent, or an integer
CorCounts == {Undefined} \cup {V(n) : n \in {0 - 1, 0, 5, 8, 20}}

CorDurations == {Undefined, V(0), V(2 * NsPerMs)}

CorStats ==
    {Stats(ec, ed, pec, ped, td) :
        ec \in CorCounts, ed \in CorDurations, pec \in CorCounts,
        ped \in {Undefined, V(NsPerMs)}, td \in {Undefined, V(4 * NsPerMs)}}

(***************************************************************************)
(* The metrics corrector.                                                  *)
(***************************************************************************)
\* Math.ceil(text.length / 4)
estimateTokenCount(len) ==
    IF len % CharsPerToken = 0 THEN len \div CharsPerToken
    ELSE (len \div CharsPerToken) + 1

\* the prompt-token correction, with > in the place of >=
correctPromptTokens_Strict(stats, completion, text) ==
    IF stats.prompt_eval_count # Undefined
    THEN IF stats.prompt_eval_count.n > completion.n
         THEN [promptTokens |-> JsMax0(JsSub(stats.prompt_eval_count, completion)),
               totalTokens |-> stats.prompt_eval_count]
         ELSE [promptTokens |-> JsMax0(stats.prompt_eval_count),
               totalTokens |-> JsAdd(JsMax0(stats.prompt_eval_count), completion)]
    ELSE [promptTokens |-> V(estimateTokenCount(text)),
          totalTokens |-> JsAdd(V(estimateTokenCount(text)), completion)]

\* the prompt-token correction of calculateMetrics: prompt and total
correctPromptTokens(stats, completion, text) ==
    IF stats.prompt_eval_count # Undefined
    THEN IF JsGe(stats.prompt_eval_count, completion)
         THEN [promptTokens |-> JsMax0(JsSub(stats.prompt_eval_count, completion)),
               totalTokens |-> stats.prompt_eval_count]
         ELSE [promptTokens |-> JsMax0(stats.prompt_eval_count),
               totalTokens |-> JsAdd(JsMax0(stats.prompt_eval_count), completion)]
    ELSE [promptTokens |-> V(estimateTokenCount(text)),
          totalTokens |-> JsAdd(V(estimateTokenCount(text)), completion)]

\* calculateMetrics(stats, responseTime, text), text given by its length
calculateMetrics(stats, responseTime, text) ==
    LET processingTime ==
            IF stats.eval_duration # Undefined /\ stats.prompt_eval_duration # Undefined
            THEN JsOver(JsAdd(stats.eval_duration, stats.prompt_eval_duration), NsPerSec)
            ELSE JsOver(responseTime, MsPerSec)
        completion ==
            IF stats.eval_count # Undefined THEN stats.eval_count
            ELSE V(estimateTokenCount(text))
        c == correctPromptTokens(stats, completion, text)
        prompt == IF JsLt0(c.promptTokens) THEN V(0) ELSE c.promptTokens
        total == c.totalTokens
        rate ==
            IF JsGt0(processingTime) /\ JsGt0(completion)
            THEN JsDiv(completion, processingTime)
            ELSE IF JsGt0(processingTime) /\ JsGt0(total)
                 THEN JsDiv(total, processingTime)
                 ELSE V(0)
        tokensPerSecond == IF isFinite(rate) THEN rate ELSE V(0)
    IN  Metrics(responseTime, tokensPerSecond, total, prompt,
                completion, processingTime)

(***************************************************************************)
(* The stream consumer: generateCompletion of OllamaService (part_013, and *)
(* its variant part_008) and of ApiService (part_012, and its variant      *)
(* part_009).                                                              *)
(***************************************************************************)
Services == {"ollama13", "ollama08", "api12", "api09"}

IsOllama(s) == s \in {"ollama13", "ollama08"}

\* the configured maxTokens: unset, or a number
MaxTokensChoices == {Undefined, V(4)}

\* how long an await may take, ms: a fetch takes time, a read may resolve at once
FetchDelays == {30}

ReadDelays == {0, 60}

\* the statistics a streamed record may carry: each count absent or present; the
\* durations absent, or present with eval_duration zero or positive
StreamTimings ==
    { <<Undefined, Undefined, Undefined>>,
      <<V(0), V(NsPerMs), V(4 * NsPerMs)>>,
      <<V(2 * NsPerMs), V(NsPerMs), V(4 * NsPerMs)>> }

\* every combination of counts with the positive durations, and the other
\* durations with one pair of counts
StreamStats ==
    {Stats(ec, V(2 * NsPerMs), pec, V(NsPerMs), V(4 * NsPerMs)) :
        ec \in {Undefined, V(3), V(8)}, pec \in {Undefined, V(5), V(20)}}
    \cup {Stats(V(8), t[1], V(20), t[2], t[3]) : t \in StreamTimings}

\* a line of the body: a JSON record, or text JSON.parse rejects
MalformedLine == [ok |-> FALSE, done |-> FALSE, stats |-> EmptyStats]

Lines ==
    {MalformedLine} \cup {[ok |-> TRUE, done |-> d, stats |-> st] : d \in BOOLEAN, st \in StreamStats}

\* the usage block of an OpenAI-compatible response: absent or present
ApiUsages ==
    { [prompt_tokens |-> Undefined, completion_tokens |-> Undefined, total_tokens |-> Undefined],
      [prompt_tokens |-> V(5), completion_tokens |-> V(8), total_tokens |-> V(13)] }

\* finalResponse = null
NoResponse == [seen |-> FALSE, stats |-> EmptyStats]

\* (now - startTime) / 1000, startTime being 0
timeSince(t) == JsOver(V(t), MsPerSec)

\* the token counts of a streamed record with a truthy eval_count
streamTokens(data) ==
    IF JsGe(data.prompt_eval_count, data.eval_count)
    THEN [promptTokens |-> JsMax0(JsSub(data.prompt_eval_count, data.eval_count)),
          totalTokens |-> data.prompt_eval_count]
    ELSE [promptTokens |-> JsMax0(data.prompt_eval_count),
          totalTokens |-> JsAdd(JsMax0(data.prompt_eval_count), data.eval_count)]

\* the metrics reported with a streamed record
streamMetrics(data, t) ==
    Metrics(JsTimes(timeSince(t), MsPerSec),
            JsDiv(data.eval_count, JsOr(JsOver(data.eval_duration, NsPerSec), timeSince(t))),
            streamTokens(data).totalTokens,
            streamTokens(data).promptTokens,
            data.eval_count,
            JsOver(data.total_duration, NsPerSec))

\* this.config.maxTokens || 128
numPredict(mt) == IF Truthy(mt) THEN mt.n ELSE DefaultMaxTokens

\* the literal 0.99
Cap99 == [t |-> "num", n |-> 99, s |-> 1, d |-> 100]

\* Math.min(data.eval_count / (this.config.maxTokens || 128), 0.99)
streamProgress(data, mt) ==
    IF 100 * data.eval_count.n < 99 * numPredict(mt)
    THEN JsOver(data.eval_count, numPredict(mt))
    ELSE Cap99

\* the literal 0.1 of the initial report
InitialProgress == [t |-> "num", n |-> 1, s |-> 1, d |-> 10]

\* the metrics computed from finalResponse
finalMetrics(fr) ==
    LET prompt == JsMax0(JsSub(fr.prompt_eval_count, fr.eval_count))
        rate == JsDiv(fr.eval_count, JsOver(fr.eval_duration, NsPerSec))
    IN  Metrics(JsOver(fr.total_duration, NsPerMs),
                IF isFinite(rate) THEN rate ELSE V(0),
                JsAdd(prompt, fr.eval_count),
                prompt,
                fr.eval_count,
                JsOver(fr.total_duration, NsPerSec))

\* the metrics computed from lastStats and the locals when there is no finalResponse
fallbackMetrics(ls, prompt, completion, t) ==
    LET processingTime ==
            JsOr(JsOver(JsAdd(ls.prompt_eval_duration, ls.eval_duration), NsPerSec),
                 timeSince(t))
        p == IF JsLt0(prompt) THEN V(0) ELSE prompt
        rate == JsDiv(completion, JsOr(JsOver(ls.eval_duration, NsPerSec), processingTime))
    IN  Metrics(IF Truthy(ls.total_duration) THEN JsOver(ls.total_duration, NsPerMs) ELSE V(t),
                IF isFinite(rate) THEN rate ELSE V(0),
                JsAdd(p, completion),
                p,
                completion,
                processingTime)

\* the metrics ApiService computes from the usage block of the response
apiMetrics(usage, t, guarded) ==
    LET completion == JsOr(usage.completion_tokens, V(0))
        rate == JsDiv(completion, timeSince(t))
    IN  Metrics(V(t),
                IF guarded /\ ~isFinite(rate) THEN V(0) ELSE rate,
                JsOr(usage.total_tokens, V(0)),
                JsOr(usage.prompt_tokens, V(0)),
                completion,
                timeSince(t))

\* one onProgress call
Call(progress, metrics, t, kind) ==
    [progress |-> progress, metrics |-> metrics, at |-> t, kind |-> kind]

\* no onProgress call yet
NoCall == Call(V(0), ZeroMetrics, 0, "none")

(***************************************************************************)
(* The corrector tried on one input.                                       *)
(***************************************************************************)
CorIdle ==
    /\ corPc = "idle"
    /\ corStats = EmptyStats
    /\ corResponseTime = V(0)
    /\ corText = 0
    /\ corPrompt = 0
    /\ corMetrics = ZeroMetrics

\* the lengths of the prompts: calculateMetrics has no parameter for the prompt
PromptLengths == {0, 6, 8}

InitCorrector ==
    /\ corPc = "input"
    /\ corStats \in CorStats
    /\ corResponseTime \in {V(0), V(40)}
    /\ corText \in 0..MaxTextLen
    /\ corPrompt \in PromptLengths
    /\ corMetrics = ZeroMetrics

\* the call of calculateMetrics
Correct ==
    /\ corPc = "input"
    /\ corPc' = "done"
    /\ corMetrics' = calculateMetrics(corStats, corResponseTime, corText)
    /\ UNCHANGED <<corStats, corResponseTime, corText, corPrompt>>
    /\ UNCHANGED notCorVars

NextCorrector == Correct

(***************************************************************************)
(* One run of generateCompletion.                                          *)
(***************************************************************************)
\* nothing of the body read yet
NoBody == [pendingTail |-> FALSE, cut |-> FALSE, terminal |-> NoResponse]

RunIdle ==
    /\ svc = "none"
    /\ maxTokens = Undefined
    /\ now = 0
    /\ pc = "idle"
    /\ nLines = 0
    /\ linesLeft = 0
    /\ promptTokens = V(0)
    /\ completionTokens = V(0)
    /\ totalTokens = V(0)
    /\ lastStats = EmptyStats
    /\ finalResponse = NoResponse
    /\ lastCall = NoCall
    /\ prevCall = NoCall
    /\ result = ZeroMetrics
    /\ cause = "none"
    /\ terminal = NoResponse
    /\ skipped = FALSE
    /\ body = NoBody

InitRun ==
    /\ svc \in Services
    /\ maxTokens \in MaxTokensChoices
    /\ now = 0
    /\ pc = "start"
    /\ nLines = 0
    /\ linesLeft = 0
    /\ promptTokens = V(0)
    /\ completionTokens = V(0)
    /\ totalTokens = V(0)
    /\ lastStats = EmptyStats
    /\ finalResponse = NoResponse
    /\ lastCall = NoCall
    /\ prevCall = NoCall
    /\ result = ZeroMetrics
    /\ cause = "none"
    /\ terminal = NoResponse
    /\ skipped = FALSE
    /\ body = NoBody

\* the metrics of the initial report: ApiService of part_012 sets no processingTime
initialMetrics(s) == IF s = "api12" THEN [ZeroMetrics EXCEPT !.processingTime = Undefined] ELSE ZeroMetrics

\* the log after the catch block of generateCompletion: ApiService of part_012
\* reports progress 1 with empty metrics before it rethrows
caughtCalls(s, t) ==
    IF s = "api12" THEN <<Call(V(1), ZeroMetrics, t, "error")>> ELSE <<>>

\* onProgress is called with each of calls, in order
onProgress(calls) ==
    /\ lastCall' = IF calls = <<>> THEN lastCall ELSE calls[Len(calls)]
    /\ prevCall' = IF calls = <<>> THEN prevCall ELSE [lastCall EXCEPT !.metrics = ZeroMetrics]

\* a catch block that returns empty metrics in the place of rethrowing
settleRejected_Swallow(c) ==
    /\ pc' = "resolved"
    /\ cause' = c
    /\ result' = ZeroMetrics

\* the end of the catch block: throw error
settleRejected(c) ==
    /\ pc' = "rejected"
    /\ cause' = c
    /\ result' = result

\* the locals of the call go out of scope when the promise settles
localsDropped ==
    /\ nLines' = 0
    /\ linesLeft' = 0
    /\ promptTokens' = V(0)
    /\ completionTokens' = V(0)
    /\ totalTokens' = V(0)
    /\ lastStats' = EmptyStats
    /\ finalResponse' = NoResponse

\* the start of the call up to the fetch: the initial report, where there is one
Start ==
    /\ pc = "start"
    /\ pc' = "fetch"
    /\ onProgress(IF svc = "ollama13" THEN <<>>
                  ELSE <<Call(InitialProgress, initialMetrics(svc), now, "initial")>>)
    /\ UNCHANGED <<svc, maxTokens, now, nLines, linesLeft, promptTokens, completionTokens, totalTokens, lastStats, finalResponse, result, cause, terminal, skipped, body>>
    /\ UNCHANGED notRunVars

\* fetch resolves with response.ok
FetchOk ==
    /\ pc = "fetch"
    /\ \E delay \in FetchDelays : now' = now + delay
    /\ pc' = IF IsOllama(svc) THEN "read" ELSE "json"
    /\ UNCHANGED <<svc, maxTokens, nLines, linesLeft, promptTokens, completionTokens, totalTokens, lastStats, finalResponse, lastCall, prevCall, result, cause, terminal, skipped, body>>
    /\ UNCHANGED notRunVars

\* fetch resolves with a non-2xx response: the service throws
FetchHttpError ==
    /\ pc = "fetch"
    /\ \E delay \in FetchDelays : now' = now + delay
    /\ onProgress(caughtCalls(svc, now'))
    /\ settleRejected("http")
    /\ localsDropped
    /\ UNCHANGED <<svc, maxTokens, terminal, skipped, body>>
    /\ UNCHANGED notRunVars

\* fetch rejects
FetchNetworkError ==
    /\ pc = "fetch"
    /\ \E delay \in FetchDelays : now' = now + delay
    /\ onProgress(caughtCalls(svc, now'))
    /\ settleRejected("network")
    /\ localsDropped
    /\ UNCHANGED <<svc, maxTokens, terminal, skipped, body>>
    /\ UNCHANGED notRunVars

\* ApiService: response.json() resolves; the metrics, the final report, the return
ApiJson ==
    /\ pc = "json"
    /\ \E delay \in ReadDelays, usage \in ApiUsages :
          /\ now' = now + delay
          /\ result' = apiMetrics(usage, now', svc = "api09")
          /\ onProgress(<<Call(V(1), result', now', "final")>>)
    /\ pc' = "resolved"
    /\ localsDropped
    /\ UNCHANGED <<svc, maxTokens, cause, terminal, skipped, body>>
    /\ UNCHANGED notRunVars

\* ApiService: response.json() rejects
ApiJsonError ==
    /\ pc = "json"
    /\ \E delay \in ReadDelays : now' = now + delay
    /\ onProgress(caughtCalls(svc, now'))
    /\ settleRejected("read")
    /\ localsDropped
    /\ UNCHANGED <<svc, maxTokens, terminal, skipped, body>>
    /\ UNCHANGED notRunVars

\* OllamaService: reader.read() resolves with a chunk of k lines
ReadChunk ==
    /\ pc = "read"
    /\ \E delay \in ReadDelays : now' = now + delay
    /\ \E k \in 1..(MaxLines - nLines) :
          /\ linesLeft' = k
          /\ nLines' = nLines + k
    /\ pc' = "lines"
    /\ UNCHANGED <<svc, maxTokens, promptTokens, completionTokens, totalTokens, lastStats, finalResponse, lastCall, prevCall, result, cause, terminal, skipped, body>>
    /\ UNCHANGED notRunVars

\* a loop that gives up at a line JSON.parse rejects
afterLine_Abort(line, left) ==
    IF ~line.ok THEN "rejected" ELSE IF left = 1 THEN "read" ELSE "lines"

\* where the loop over the lines goes after a line, parsed or caught: to the
\* next line, or to the next read after the last line of the chunk
afterLine(line, left) == IF left = 1 THEN "read" ELSE "lines"

\* the records a chunk may end inside of
CutLines ==
    {[ok |-> TRUE, done |-> d, stats |-> Stats(V(8), V(2 * NsPerMs), V(20), V(NsPerMs), V(4 * NsPerMs))] : d \in BOOLEAN}

\* what chunk.split('\n') yields for a line of the body: the line, or a piece
\* of it that JSON.parse rejects when the chunk ends inside the line or began
\* inside it
splitLine(line, whole) == IF whole THEN line ELSE MalformedLine

\* OllamaService: one turn of the loop over the lines of the chunk; a chunk
\* may end inside its last line, and the next chunk then begins with the rest
ProcessLine ==
    /\ pc = "lines"
    /\ linesLeft' = linesLeft - 1
    /\ \E record \in Lines, whole \in BOOLEAN :
          LET line == splitLine(record, whole /\ ~body.pendingTail)
              data == line.stats
              counted == line.ok /\ Truthy(data.eval_count)
          IN  /\ body.pendingTail => (whole /\ record = MalformedLine)
              /\ ~whole => (record \in CutLines /\ linesLeft = 1 /\ nLines < MaxLines)
              /\ body' = [pendingTail |-> ~whole,
                          cut |-> body.cut \/ ~whole,
                          terminal |-> IF record.ok /\ record.done
                                       THEN [seen |-> TRUE, stats |-> record.stats]
                                       ELSE body.terminal]
              /\ pc' = afterLine(line, linesLeft)
              /\ terminal' = IF line.ok /\ line.done THEN [seen |-> TRUE, stats |-> data] ELSE terminal
              /\ skipped' = (skipped \/ ~line.ok)
              /\ finalResponse' =
                    IF svc = "ollama13" /\ line.ok /\ line.done
                    THEN [seen |-> TRUE, stats |-> data] ELSE finalResponse
              /\ lastStats' =
                    IF svc = "ollama13" /\ counted THEN data
                    ELSE IF svc = "ollama08" /\ line.ok /\ line.done THEN data
                    ELSE lastStats
              /\ completionTokens' = IF counted THEN data.eval_count ELSE completionTokens
              /\ promptTokens' = IF counted THEN streamTokens(data).promptTokens ELSE promptTokens
              /\ totalTokens' = IF counted THEN streamTokens(data).totalTokens ELSE totalTokens
              /\ onProgress(IF counted
                            THEN <<Call(streamProgress(data, maxTokens), streamMetrics(data, now), now, "stream")>>
                            ELSE <<>>)
    /\ UNCHANGED <<svc, maxTokens, now, nLines, result, cause>>
    /\ UNCHANGED notRunVars

\* OllamaService: reader.read() resolves with done; the final metrics, the final
\* report, the return
ReadDone ==
    /\ pc = "read"
    /\ ~body.pendingTail
    /\ \E delay \in ReadDelays : now' = now + delay
    /\ result' =
          IF finalResponse.seen THEN finalMetrics(finalResponse.stats)
          ELSE fallbackMetrics(lastStats, promptTokens, completionTokens, now')
    /\ onProgress(<<Call(V(1), result', now', "final")>>)
    /\ pc' = "resolved"
    /\ localsDropped
    /\ UNCHANGED <<svc, maxTokens, cause, terminal, skipped, body>>
    /\ UNCHANGED notRunVars

\* OllamaService: reader.read() rejects
ReadError ==
    /\ pc = "read"
    /\ \E delay \in ReadDelays : now' = now + delay
    /\ onProgress(caughtCalls(svc, now'))
    /\ settleRejected("read")
    /\ localsDropped
    /\ UNCHANGED <<svc, maxTokens, terminal, skipped, body>>
    /\ UNCHANGED notRunVars

NextRun ==
    \/ Start
    \/ FetchOk
    \/ FetchHttpError
    \/ FetchNetworkError
    \/ ApiJson
    \/ ApiJsonError
    \/ ReadChunk
    \/ ProcessLine
    \/ ReadDone
    \/ ReadError

(***************************************************************************)
(* The run orchestrator: the settings the Settings page saves, the model   *)
(* selection of the dashboard, handleCompare and                           *)
(* ComparisonService.compareModels.                                        *)
(***************************************************************************)
\* the configurations a user may define, in the order of the settings object:
\* the Ollama endpoints first, then the API endpoints
CfgOrder == <<"o1", "o2", "a1">>

CfgIds == {CfgOrder[i] : i \in 1..Len(CfgOrder)}

\* what an endpoint does with a run: generateCompletion rejects, or resolves
\* with one of these metrics
MetricsA == Metrics(V(40), V(200), V(13), V(5), V(8), V(0))

MetricsB == Metrics(V(90), V(100), V(20), V(12), V(8), V(0))

Endpoints == {"fail", "A", "B"}

returnedMetrics(e) == IF e = "A" THEN MetricsA ELSE MetricsB

\* no ModelResponse yet
NoResponseYet == [id |-> "none", metrics |-> ZeroMetrics, error |-> FALSE]

\* the ids of the configurations that settings s holds, and of those enabled in it
definedIn(s) == {c \in CfgIds : s[c] # "absent"}

enabledIn(s) == {c \in CfgIds : s[c] = "enabled"}

\* the dashboard's effect on the selection: an empty selection becomes every
\* enabled model
autoSelect(sel, enabled) == IF sel = {} /\ enabled # {} THEN enabled ELSE sel

\* a sequence without the elements that fail test
RECURSIVE SelectIds(_, _)
SelectIds(order, keep) ==
    IF order = <<>> THEN <<>>
    ELSE (IF Head(order) \in keep THEN <<Head(order)>> ELSE <<>>) \o SelectIds(Tail(order), keep)

\* a ComparisonResult: errors is undefined when no message was pushed
ComparisonResult(resps, errs) ==
    [responses |-> resps, errorsDefined |-> errs # <<>>, errors |-> errs]

NoResult == ComparisonResult(<<>>, <<>>)

\* the ModelResponse of a run that returned metrics m
okResponse(c, m) == [id |-> c, metrics |-> m, error |-> FALSE]

\* the error response of the catch block: five zero metrics, error set
errorResponse(c) ==
    [id |-> c, metrics |-> [ZeroMetrics EXCEPT !.processingTime = Undefined], error |-> TRUE]

CmpIdle ==
    /\ dashboard = "none"
    /\ cmpSettings = [c \in CfgIds |-> "absent"]
    /\ svcConfigs = [c \in CfgIds |-> "absent"]
    /\ selectedModelIds = {}
    /\ cmpPc = "idle"
    /\ modelsToCompare = {}
    /\ endpoint = [c \in CfgIds |-> "fail"]
    /\ runs = [c \in CfgIds |-> "none"]
    /\ responses = [c \in CfgIds |-> NoResponseYet]
    /\ errors = <<>>
    /\ cmpResult = NoResult

\* a fresh page: empty localStorage, the ComparisonService just constructed; the
\* dashboard is the one that calls the service (part_014) or the one that runs
\* the models itself (ComparisonDashboard.tsx)
InitCompare ==
    /\ dashboard \in {"service", "direct"}
    /\ cmpSettings = [c \in CfgIds |-> "absent"]
    /\ svcConfigs = [c \in CfgIds |-> "absent"]
    /\ selectedModelIds = {}
    /\ cmpPc = "idle"
    /\ modelsToCompare = {}
    /\ endpoint = [c \in CfgIds |-> "fail"]
    /\ runs = [c \in CfgIds |-> "none"]
    /\ responses = [c \in CfgIds |-> NoResponseYet]
    /\ errors = <<>>
    /\ cmpResult = NoResult

\* the state of a comparison before it starts
comparisonCleared ==
    /\ modelsToCompare' = {}
    /\ endpoint' = [c \in CfgIds |-> "fail"]
    /\ runs' = [c \in CfgIds |-> "none"]
    /\ responses' = [c \in CfgIds |-> NoResponseYet]
    /\ errors' = <<>>
    /\ cmpResult' = NoResult

\* the Settings page saves new settings: localStorage, then updateConfigs, which
\* keeps every configuration; back on the dashboard the selection starts empty
\* and the effect selects every enabled model.  The model follows one
\* comparison at a time: the user leaves the dashboard when none is in flight.
handleSettingsChange ==
    /\ cmpPc # "running"
    /\ \E new \in [CfgIds -> {"absent", "enabled", "disabled"}] :
          /\ cmpSettings' = new
          /\ svcConfigs' = new
          /\ selectedModelIds' = autoSelect({}, enabledIn(new))
    /\ cmpPc' = "idle"
    /\ comparisonCleared
    /\ UNCHANGED dashboard
    /\ UNCHANGED notCmpVars

\* window.location.reload(): localStorage stays, the ComparisonService is
\* constructed anew, the dashboard mounts with an empty selection
handleRefresh ==
    /\ svcConfigs' = [c \in CfgIds |-> "absent"]
    /\ selectedModelIds' = autoSelect({}, enabledIn(cmpSettings))
    /\ cmpPc' = "idle"
    /\ comparisonCleared
    /\ UNCHANGED <<dashboard, cmpSettings>>
    /\ UNCHANGED notCmpVars

\* a checkbox of the model list is toggled
handleModelToggle ==
    /\ \E modelId \in enabledIn(cmpSettings) :
          LET newSelection ==
                  IF modelId \in selectedModelIds THEN selectedModelIds \ {modelId}
                  ELSE selectedModelIds \cup {modelId}
          IN  selectedModelIds' = autoSelect(newSelection, enabledIn(cmpSettings))
    /\ UNCHANGED <<dashboard, cmpSettings, svcConfigs, cmpPc, modelsToCompare, endpoint, runs, responses, errors, cmpResult>>
    /\ UNCHANGED notCmpVars

\* the configurations a comparison starts a run for: compareModels maps over
\* every configuration of this.configs; ComparisonDashboard.tsx maps over
\* modelsToCompare
launched(d, configs, toCompare) == IF d = "service" THEN definedIn(configs) ELSE toCompare

\* the Compare button
handleCompare ==
    /\ cmpPc # "running"
    /\ selectedModelIds # {}
    /\ cmpPc' = "running"
    /\ modelsToCompare' = enabledIn(cmpSettings) \cap selectedModelIds
    /\ runs' = [c \in CfgIds |->
                  IF c \in launched(dashboard, svcConfigs, modelsToCompare') THEN "pending"
                  ELSE "none"]
    /\ endpoint' \in [CfgIds -> Endpoints]
    /\ responses' = [c \in CfgIds |-> NoResponseYet]
    /\ errors' = <<>>
    /\ cmpResult' = NoResult
    /\ UNCHANGED <<dashboard, cmpSettings, svcConfigs, selectedModelIds>>
    /\ UNCHANGED notCmpVars

\* generateCompletion resolved for configuration c
RunResolve ==
    /\ cmpPc = "running"
    /\ \E c \in CfgIds :
          /\ runs[c] = "pending"
          /\ endpoint[c] # "fail"
          /\ runs' = [runs EXCEPT ![c] = "ok"]
          /\ responses' = [responses EXCEPT ![c] = okResponse(c, returnedMetrics(endpoint[c]))]
    /\ UNCHANGED <<dashboard, cmpSettings, svcConfigs, selectedModelIds, cmpPc, modelsToCompare, endpoint, errors, cmpResult>>
    /\ UNCHANGED notCmpVars

\* a catch block that pushes no message
catchRun_Silent(c) ==
    /\ runs' = [runs EXCEPT ![c] = "failed"]
    /\ responses' = [responses EXCEPT ![c] = errorResponse(c)]
    /\ errors' = errors

\* a catch block that rethrows
catchRun_Rethrow(c) ==
    /\ runs' = [runs EXCEPT ![c] = "thrown"]
    /\ responses' = responses
    /\ errors' = Append(errors, c)

\* the catch block of a run: compareModels pushes a message and returns an
\* error response; ComparisonDashboard.tsx returns null
catchRun(c) ==
    /\ runs' = [runs EXCEPT ![c] = "failed"]
    /\ responses' = [responses EXCEPT ![c] = IF dashboard = "service" THEN errorResponse(c) ELSE NoResponseYet]
    /\ errors' = IF dashboard = "service" THEN Append(errors, c) ELSE errors

\* generateCompletion rejected for configuration c
RunReject ==
    /\ cmpPc = "running"
    /\ \E c \in CfgIds :
          /\ runs[c] = "pending"
          /\ endpoint[c] = "fail"
          /\ catchRun(c)
    /\ UNCHANGED <<dashboard, cmpSettings, svcConfigs, selectedModelIds, cmpPc, modelsToCompare, endpoint, cmpResult>>
    /\ UNCHANGED notCmpVars

\* Promise.all settles: it rejects once a run has thrown, it resolves once every
\* run has returned; the responses are in the order of the configurations, the
\* null ones of ComparisonDashboard.tsx filtered out
PromiseAll ==
    /\ cmpPc = "running"
    /\ \/ \E c \in CfgIds : runs[c] = "thrown"
       \/ \A c \in CfgIds : runs[c] # "pending"
    /\ IF \E c \in CfgIds : runs[c] = "thrown"
       THEN /\ cmpPc' = "rejected"
            /\ cmpResult' = cmpResult
       ELSE /\ cmpPc' = "resolved"
            /\ cmpResult' =
                  ComparisonResult(
                      [i \in 1..Len(SelectIds(CfgOrder, {c \in CfgIds : responses[c].id # "none"})) |->
                          responses[SelectIds(CfgOrder, {c \in CfgIds : responses[c].id # "none"})[i]]],
                      errors)
    /\ UNCHANGED <<dashboard, cmpSettings, svcConfigs, selectedModelIds, modelsToCompare, endpoint, runs, responses, errors>>
    /\ UNCHANGED notCmpVars

NextCompare ==
    \/ handleSettingsChange
    \/ handleRefresh
    \/ handleModelToggle
    \/ handleCompare
    \/ RunResolve
    \/ RunReject
    \/ PromiseAll

(***************************************************************************)
(* The performance-history buffer of the dashboard.  A point is modelled by *)
(* its number in the order of the appends of the current comparison.       *)
(***************************************************************************)
BufIdle ==
    /\ bufDashboard = "none"
    /\ isComparing = FALSE
    /\ performanceHistory = <<>>
    /\ appended = 0

\* the dashboard just mounted: ComparisonDashboard.tsx, or its variant part_014
InitBuffer ==
    /\ bufDashboard \in {"tsx", "part_014"}
    /\ isComparing = FALSE
    /\ performanceHistory = <<>>
    /\ appended = 0

\* newHistory.length > maxPoints ? newHistory.slice(-maxPoints) : newHistory
capped(newHistory) ==
    IF Len(newHistory) > maxPoints
    THEN SubSeq(newHistory, Len(newHistory) - maxPoints + 1, Len(newHistory))
    ELSE newHistory

\* the update function handleModelProgress passes to setPerformanceHistory:
\* ComparisonDashboard.tsx appends, part_014 appends and slices
progressAppend(d, prev, point) ==
    IF d = "tsx" THEN Append(prev, point) ELSE capped(Append(prev, point))

\* handleCompare: the buffer is emptied, then holds the initial data point
BufCompareStart ==
    /\ ~isComparing
    /\ isComparing' = TRUE
    /\ appended' = 1
    /\ performanceHistory' = <<1>>
    /\ UNCHANGED bufDashboard
    /\ UNCHANGED notBufVars

\* the interval callback of the tick effect, more than 50 ms after the last one
Tick ==
    /\ isComparing
    /\ appended < MaxAppends
    /\ appended' = appended + 1
    /\ performanceHistory' = capped(Append(performanceHistory, appended'))
    /\ UNCHANGED <<bufDashboard, isComparing>>
    /\ UNCHANGED notBufVars

\* handleModelProgress on a 'model-progress' event with progress > 0 of a known
\* model that carries metrics
ProgressEvent ==
    /\ appended < MaxAppends
    /\ appended' = appended + 1
    /\ performanceHistory' = progressAppend(bufDashboard, performanceHistory, appended')
    /\ UNCHANGED <<bufDashboard, isComparing>>
    /\ UNCHANGED notBufVars

\* the finally block of handleCompare
BufCompareEnd ==
    /\ isComparing
    /\ isComparing' = FALSE
    /\ UNCHANGED <<bufDashboard, performanceHistory, appended>>
    /\ UNCHANGED notBufVars

NextBuffer ==
    \/ BufCompareStart
    \/ Tick
    \/ ProgressEvent
    \/ BufCompareEnd

(***************************************************************************)
(* The chart preprocessor: processedData of PerformanceChart.tsx and of its *)
(* variant AdvancedPerformanceChart (part_003).  A timestamp is modelled by *)
(* the milliseconds its ISO string stands for; a model value is a number   *)
(* n / d, null, or absent (the key is not on the point).                   *)
(***************************************************************************)
ChartKeys == {"A", "B"}

ChartNum(n, d) == [t |-> "num", n |-> n, d |-> d]

ChartNull == [t |-> "null", n |-> 0, d |-> 1]

ChartAbsent == [t |-> "undef", n |-> 0, d |-> 1]

\* a PerformanceDataPoint
DataPoint(ts, a, b) == [timestamp |-> ts, vals |-> [k \in ChartKeys |-> IF k = "A" THEN a ELSE b]]

\* the timestamps of the points the preprocessor is tried on, ms: equal ones, a
\* gap of exactly 100, a gap of 120, a gap of more than 20 time steps
ChartTimes == {0, 100, 220, 1300}

\* the points the preprocessor is tried on: no model, one model, both models
ChartPoints ==
    {DataPoint(ts, v[1], v[2]) :
        ts \in ChartTimes,
        v \in { <<ChartAbsent, ChartAbsent>>, <<ChartNum(10, 1), ChartAbsent>>,
                <<ChartAbsent, ChartNum(20, 1)>>, <<ChartNum(30, 1), ChartNum(20, 1)>> }}

ChartBuffers == UNION {[1..n -> ChartPoints] : n \in 0..MaxChartLen}

\* [...data].sort by time: the sort is stable, a point goes after the points
\* that are not later than it
RECURSIVE insertByTime(_, _)
insertByTime(p, sorted) ==
    IF sorted = <<>> THEN <<p>>
    ELSE IF Head(sorted).timestamp <= p.timestamp
         THEN <<Head(sorted)>> \o insertByTime(p, Tail(sorted))
         ELSE <<p>> \o sorted

\* the buffer left in the order of its arrival
sortedData_Unsorted(data) == data

RECURSIVE sortedData(_)
sortedData(data) ==
    IF data = <<>> THEN <<>>
    ELSE insertByTime(data[Len(data)], sortedData(SubSeq(data, 1, Len(data) - 1)))

\* the keys of the points, those of selectedModels only when it is not empty
allModelKeys(data, selected) ==
    {k \in ChartKeys :
        /\ \E i \in 1..Len(data) : data[i].vals[k] # ChartAbsent
        /\ (selected = {} \/ k \in selected)}

\* a point with every key of keys: its own value, or null
normalizedPoint(point, keys) ==
    [timestamp |-> point.timestamp,
     vals |-> [k \in ChartKeys |->
                  IF k \notin keys THEN ChartAbsent
                  ELSE IF point.vals[k] # ChartAbsent THEN point.vals[k] ELSE ChartNull]]

normalizedData(data, selected) ==
    [i \in 1..Len(data) |-> normalizedPoint(sortedData(data)[i], allModelKeys(data, selected))]

\* the steps without the limit of 20
interpolationSteps_Uncapped(timeDiff) == timeDiff \div timeStep

\* Math.min(Math.floor(timeDiff / timeStep), 20)
interpolationSteps(timeDiff) ==
    IF timeDiff \div timeStep < MaxSteps THEN timeDiff \div timeStep ELSE MaxSteps

\* start + (end - start) * t, t = progress^2 * (3 - 2 * progress), progress = step / steps
cubicInterpolate(start, end, step, steps) ==
    ChartNum(start.n * end.d * steps * steps * steps
                 + (end.n * start.d - start.n * end.d) * step * step * (3 * steps - 2 * step),
             start.d * end.d * steps * steps * steps)

\* the point interpolated at step of steps between current and next
interpolatedPoint(current, next, step, steps, keys) ==
    [timestamp |-> current.timestamp + ((next.timestamp - current.timestamp) * step) \div steps,
     vals |-> [k \in ChartKeys |->
                  IF k \notin keys THEN ChartAbsent
                  ELSE IF current.vals[k].t = "num" /\ next.vals[k].t = "num"
                       THEN cubicInterpolate(current.vals[k], next.vals[k], step, steps)
                       ELSE current.vals[k]]]

\* the points pushed for index i: the point, then the interpolated ones if the
\* gap to the next point is more than two time steps
pushedAt(norm, i, keys) ==
    LET timeDiff == norm[i + 1].timestamp - norm[i].timestamp
        steps == interpolationSteps(timeDiff)
    IN  IF timeDiff > timeStep * 2
        THEN <<norm[i]>> \o [step \in 1..(steps - 1) |->
                                interpolatedPoint(norm[i], norm[i + 1], step, steps, keys)]
        ELSE <<norm[i]>>

RECURSIVE interpolated(_, _, _)
interpolated(norm, i, keys) ==
    IF i >= Len(norm) THEN <<norm[Len(norm)]>>
    ELSE pushedAt(norm, i, keys) \o interpolated(norm, i + 1, keys)

\* Math.max(2, Math.floor(length * (smoothing / 100)))
smoothingWindow(length) ==
    IF (length * smoothing) \div 100 > 2 THEN (length * smoothing) \div 100 ELSE 2

RECURSIVE sumOver(_, _, _)
sumOver(norm, k, js) ==
    IF js = {} THEN 0
    ELSE LET j == CHOOSE x \in js : TRUE
         IN  norm[j].vals[k].n + sumOver(norm, k, js \ {j})

\* the mean of the numbers the key has within the window around index i, or null
smoothedValue(norm, i, k) ==
    LET w == smoothingWindow(Len(norm))
        js == {j \in 1..Len(norm) : j >= i - w /\ j <= i + w /\ norm[j].vals[k].t = "num"}
    IN  IF js = {} THEN ChartNull ELSE ChartNum(sumOver(norm, k, js), Cardinality(js))

smoothedData(norm, keys) ==
    [i \in 1..Len(norm) |->
        [timestamp |-> norm[i].timestamp,
         vals |-> [k \in ChartKeys |->
                      IF k \in keys THEN smoothedValue(norm, i, k) ELSE ChartAbsent]]]

\* a single point and a copy with the same timestamp
duplicated_SameTime(firstPoint) == <<firstPoint, firstPoint>>

\* a single point and its copy 100 ms later
duplicated(firstPoint) ==
    <<firstPoint, [firstPoint EXCEPT !.timestamp = @ + DuplicateOffset]>>

\* processedData of the chart
processedData(variant, data, selected) ==
    IF Len(data) = 0 THEN <<>>
    ELSE IF Len(data) = 1
         THEN duplicated(data[1])
         ELSE IF variant = "tsx"
              THEN interpolated(normalizedData(data, selected), 1, allModelKeys(data, selected))
              ELSE smoothedData(normalizedData(data, selected), allModelKeys(data, selected))

ChartIdle ==
    /\ chartVariant = "none"
    /\ chartPc = "idle"
    /\ chartData = <<>>
    /\ chartSelected = {}
    /\ chartOut = <<>>

\* the chart is rendered with a buffer and a selection
InitChart ==
    /\ chartVariant \in {"tsx", "part_003"}
    /\ chartPc = "input"
    /\ chartData \in ChartBuffers
    /\ chartSelected \in {{}, {"A"}}
    /\ chartOut = <<>>

\* useMemo computes processedData
Render ==
    /\ chartPc = "input"
    /\ chartPc' = "done"
    /\ chartOut' = processedData(chartVariant, chartData, chartSelected)
    /\ UNCHANGED <<chartVariant, chartData, chartSelected>>
    /\ UNCHANGED notChartVars

NextChart == Render

(***************************************************************************)
(* The live state of the dashboard during its comparisons: the React state *)
(* and the values the closures of the latest render captured.  The name of *)
(* a model is modelled by its id.                                          *)
(***************************************************************************)
\* the ids of enabledModels
DashIds == {"m1", "m2"}

\* an id no enabled model has
UnknownId == "mx"

\* the ids a 'model-progress' event can carry
EventIds == DashIds \cup {UnknownId}

\* the tokensPerSecond values the runs report
RateChoices == {V(10), V(20)}

\* the tokensPerSecond of the metrics a run resolves with
FinalRates == {V(20)}

\* what a progress callback of a run passes on: the progress fraction, times
\* 100, and the tokensPerSecond of the metrics
Reports == {[progress |-> V(50), tps |-> r] : r \in RateChoices} \cup {[progress |-> V(0), tps |-> V(10)]}

\* the details of the 'model-progress' events
ProgressEvents ==
    {[modelId |-> id, progress |-> r.progress, tps |-> r.tps] : id \in DashIds, r \in Reports}
    \cup {[modelId |-> UnknownId, progress |-> V(50), tps |-> V(10)]}

MaxDashSteps == 1

MaxComparisons == 2

\* a ModelProgress entry; metrics is the tokensPerSecond of its metrics object,
\* Undefined when the entry has no metrics object
RunProgress(c, p, m) == [present |-> TRUE, isComplete |-> c, progress |-> p, metrics |-> m]

\* no entry under an id
NoProgress == [present |-> FALSE, isComplete |-> FALSE, progress |-> Undefined, metrics |-> Undefined]

\* an ExtendedModelResponse of the results state
ModelResult(tps, err) == [present |-> TRUE, tokensPerSecond |-> tps, error |-> err]

NoModelResult == [present |-> FALSE, tokensPerSecond |-> Undefined, error |-> FALSE]

\* the results state []
NoResults == [m \in DashIds |-> NoModelResult]

\* no model reported yet
NoReports == [m \in DashIds |-> Undefined]

\* a run: not launched, running, or settled with the tokensPerSecond of its metrics
Run(st, tps) == [state |-> st, tokensPerSecond |-> tps]

\* a point of the buffer: its values under the model names, with the handler
\* that appended it, the modelId of the event it handled, and what the models
\* had reported by then
Point(by, id, values, latest) == [by |-> by, id |-> id, values |-> values, latest |-> latest]

\* createPerformanceDataPoint(modelMetrics), with the modelProgress and the
\* selectedModelIds its closure holds
createPerformanceDataPoint(modelMetrics, progress, selected) ==
    [m \in DashIds |->
        IF modelMetrics[m].present /\ modelMetrics[m].tokensPerSecond # Undefined
        THEN modelMetrics[m].tokensPerSecond
        ELSE IF m \in selected /\ progress[m].present /\ progress[m].metrics # Undefined
             THEN progress[m].metrics
             ELSE Undefined]

\* initialProgress of handleCompare
initialProgress(models) ==
    [id \in EventIds |-> IF id \in models THEN RunProgress(FALSE, Undefined, Undefined) ELSE NoProgress]

\* the runs a comparison launches: ComparisonDashboard.tsx one per selected
\* model, part_014 the ones of compareModels, which takes no selection
launchedRuns(d, selected) == IF d = "tsx" THEN selected ELSE DashIds

\* what handleModelProgress makes of modelProgress
progressEntries(d, prev, id, p, tps) ==
    [prev EXCEPT ![id] = [@ EXCEPT !.present = TRUE, !.progress = p,
                                   !.metrics = IF d = "tsx" THEN tps ELSE JsOr(tps, V(0))]]

\* what handleModelProgress makes of performanceHistory, with the results and
\* the modelProgress its closure holds
progressPoints(d, prev, closure, selected, latest, id, p, tps) ==
    LET dataPoint == createPerformanceDataPoint(closure.results, closure.modelProgress, selected)
    IN  IF d = "tsx"
        THEN IF JsGt0(p) /\ id \in DashIds
             THEN Append(prev, Point("event", id, [dataPoint EXCEPT ![id] = tps], latest))
             ELSE prev
        ELSE capped(Append(prev, Point("event", id, dataPoint, latest)))

\* the reports after a report of the model id
reportedWith(id, tps) == IF id \in DashIds THEN [reported EXCEPT ![id] = tps] ELSE reported

\* the state as the next render captures it
committed == [isComparing |-> dashComparing, modelProgress |-> modelProgress, results |-> dashResults]

\* handleCompare not called yet
NoCalls == [inFlight |-> 0, refused |-> FALSE]

DashIdle ==
    /\ dashVariant = "none"
    /\ dashSelected = {}
    /\ dashComparing = FALSE
    /\ modelProgress = [id \in EventIds |-> NoProgress]
    /\ dashResults = NoResults
    /\ dashHistory = <<>>
    /\ rendered = [isComparing |-> FALSE, modelProgress |-> [id \in EventIds |-> NoProgress], results |-> NoResults]
    /\ dashRuns = [m \in DashIds |-> Run("none", Undefined)]
    /\ reported = NoReports
    /\ dashSteps = 0
    /\ comparisons = 0
    /\ compareCalls = NoCalls

\* the dashboard just mounted, with a selection
InitDashboard ==
    /\ dashVariant \in {"tsx", "part_014"}
    /\ dashSelected \in {{"m1"}, {"m1", "m2"}}
    /\ dashComparing = FALSE
    /\ modelProgress = [id \in EventIds |-> NoProgress]
    /\ dashResults = NoResults
    /\ dashHistory = <<>>
    /\ rendered = [isComparing |-> FALSE, modelProgress |-> [id \in EventIds |-> NoProgress], results |-> NoResults]
    /\ dashRuns = [m \in DashIds |-> Run("none", Undefined)]
    /\ reported = NoReports
    /\ dashSteps = 0
    /\ comparisons = 0
    /\ compareCalls = NoCalls

\* if (isComparing) return, for the isComparing of the render the handler
\* belongs to
mayCompare_Always(comparing) == TRUE

mayCompare(comparing) == ~comparing

\* handleCompare up to its first await, and the render React does when the
\* click handler returns: the click comes after the earlier updates rendered
DashCompareStart ==
    /\ mayCompare(rendered.isComparing)
    /\ comparisons < MaxComparisons
    /\ rendered = committed
    /\ dashComparing' = TRUE
    /\ dashResults' = NoResults
    /\ modelProgress' = initialProgress(dashSelected)
    /\ LET initialDataPoint == createPerformanceDataPoint(NoResults, rendered.modelProgress, dashSelected)
       IN  dashHistory' = <<Point("baseline", "none", initialDataPoint, NoReports)>>
    /\ rendered' = [isComparing |-> TRUE, modelProgress |-> modelProgress', results |-> NoResults]
    /\ dashRuns' = [m \in DashIds |->
                       IF m \in launchedRuns(dashVariant, dashSelected)
                       THEN Run("running", Undefined) ELSE Run("none", Undefined)]
    /\ reported' = NoReports
    /\ comparisons' = comparisons + 1
    /\ compareCalls' = [inFlight |-> compareCalls.inFlight + 1, refused |-> FALSE]
    /\ UNCHANGED <<dashVariant, dashSelected, dashSteps>>
    /\ UNCHANGED notDashVars

\* handleCompare called while the render it belongs to has isComparing true:
\* it returns at the guard
DashCompareRefused ==
    /\ ~mayCompare(rendered.isComparing)
    /\ dashSteps < MaxDashSteps
    /\ dashSteps' = dashSteps + 1
    /\ compareCalls' = [compareCalls EXCEPT !.refused = TRUE]
    /\ UNCHANGED <<dashVariant, dashSelected, dashComparing, modelProgress, dashResults, dashHistory, rendered, dashRuns, reported, comparisons>>
    /\ UNCHANGED notDashVars

\* ComparisonDashboard.tsx: the callback handleCompare passes to
\* generateCompletion, called more than 50 ms after the call it took last
DashProgressCallback ==
    /\ dashVariant = "tsx"
    /\ dashSteps < MaxDashSteps
    /\ \E m \in DashIds, r \in Reports :
          /\ dashRuns[m].state = "running"
          /\ modelProgress' = [modelProgress EXCEPT ![m] = [@ EXCEPT !.present = TRUE, !.progress = r.progress, !.metrics = r.tps]]
          /\ reported' = reportedWith(m, r.tps)
    /\ dashSteps' = dashSteps + 1
    /\ UNCHANGED <<dashVariant, dashSelected, dashComparing, dashResults, dashHistory, rendered, dashRuns, comparisons, compareCalls>>
    /\ UNCHANGED notDashVars

\* handleModelProgress on a 'model-progress' event: during a comparison the
\* event of a running model or of an id that is not a model of the dashboard;
\* ComparisonDashboard.tsx does not call the service that dispatches the
\* events, so there they also arrive when no comparison of the dashboard runs
DashProgressEvent ==
    /\ dashComparing \/ dashVariant = "tsx"
    /\ dashSteps < MaxDashSteps
    /\ \E e \in ProgressEvents :
          /\ (dashComparing /\ e.modelId \in DashIds) => dashRuns[e.modelId].state = "running"
          /\ modelProgress' = progressEntries(dashVariant, modelProgress, e.modelId, e.progress, e.tps)
          /\ reported' = reportedWith(e.modelId, e.tps)
          /\ dashHistory' = progressPoints(dashVariant, dashHistory, rendered, dashSelected, reported', e.modelId, e.progress, e.tps)
    /\ dashSteps' = dashSteps + 1
    /\ UNCHANGED <<dashVariant, dashSelected, dashComparing, dashResults, rendered, dashRuns, comparisons, compareCalls>>
    /\ UNCHANGED notDashVars

\* the interval callback of the tick effect of the latest render, more than
\* 50 ms after lastUpdate
DashTick ==
    /\ rendered.isComparing
    /\ dashSteps < MaxDashSteps
    /\ LET dataPoint == createPerformanceDataPoint(rendered.results, rendered.modelProgress, dashSelected)
       IN  dashHistory' = capped(Append(dashHistory, Point("tick", "none", dataPoint, reported)))
    /\ dashSteps' = dashSteps + 1
    /\ UNCHANGED <<dashVariant, dashSelected, dashComparing, modelProgress, dashResults, rendered, dashRuns, reported, comparisons, compareCalls>>
    /\ UNCHANGED notDashVars

\* React renders the component with the updated state: the callbacks and the
\* effects are made again and capture it
DashRender ==
    /\ rendered # committed
    /\ rendered' = committed
    /\ UNCHANGED <<dashVariant, dashSelected, dashComparing, modelProgress, dashResults, dashHistory, dashRuns, reported, dashSteps, comparisons, compareCalls>>
    /\ UNCHANGED notDashVars

\* generateCompletion of a model resolves: ComparisonDashboard.tsx completes the
\* entry of the model, the service of part_014 sends progressCallback(1, metrics)
DashRunResolve ==
    /\ \E m \in DashIds, tps \in FinalRates :
          /\ dashRuns[m].state = "running"
          /\ dashRuns' = [dashRuns EXCEPT ![m] = Run("ok", tps)]
          /\ reported' = reportedWith(m, tps)
          /\ IF dashVariant = "tsx"
             THEN /\ modelProgress' = [modelProgress EXCEPT ![m] = [@ EXCEPT !.present = TRUE, !.isComplete = TRUE, !.progress = V(100), !.metrics = tps]]
                  /\ UNCHANGED dashHistory
             ELSE /\ modelProgress' = progressEntries(dashVariant, modelProgress, m, V(100), tps)
                  /\ dashHistory' = progressPoints(dashVariant, dashHistory, rendered, dashSelected, reported', m, V(100), tps)
    /\ UNCHANGED <<dashVariant, dashSelected, dashComparing, dashResults, rendered, dashSteps, comparisons, compareCalls>>
    /\ UNCHANGED notDashVars

\* generateCompletion of a model rejects, as when reading the body fails:
\* the catch of ComparisonDashboard.tsx completes the entry with progress 0 and
\* returns null, the service of part_014 returns an error response
DashRunReject ==
    /\ \E m \in DashIds :
          /\ dashRuns[m].state = "running"
          /\ dashRuns' = [dashRuns EXCEPT ![m] = Run("failed", V(0))]
          /\ modelProgress' =
                IF dashVariant = "tsx"
                THEN [modelProgress EXCEPT ![m] = [@ EXCEPT !.present = TRUE, !.isComplete = TRUE, !.progress = V(0)]]
                ELSE modelProgress
    /\ UNCHANGED <<dashVariant, dashSelected, dashComparing, dashResults, dashHistory, rendered, reported, dashSteps, comparisons, compareCalls>>
    /\ UNCHANGED notDashVars

\* a finalProgress that leaves out the error responses
finalProgress_OkOnly(rs) ==
    [id \in EventIds |->
        IF id \in DashIds /\ rs[id].state = "ok"
        THEN RunProgress(TRUE, V(100), rs[id].tokensPerSecond)
        ELSE NoProgress]

\* finalProgress of part_014: one complete entry per response
finalProgress(rs) ==
    [id \in EventIds |->
        IF id \in DashIds /\ rs[id].state \in {"ok", "failed"}
        THEN RunProgress(TRUE, V(100), rs[id].tokensPerSecond)
        ELSE NoProgress]

\* the results handleCompare sets: ComparisonDashboard.tsx the results of the
\* runs that did not return null, part_014 the mapped responses
finalResults(d, rs) ==
    [m \in DashIds |->
        IF rs[m].state = "ok" \/ (d # "tsx" /\ rs[m].state = "failed")
        THEN ModelResult(rs[m].tokensPerSecond, FALSE)
        ELSE NoModelResult]

\* every run settled: handleCompare sets the results and leaves the comparison
DashCompareEnd ==
    /\ dashComparing
    /\ \A m \in DashIds : dashRuns[m].state # "running"
    /\ dashComparing' = FALSE
    /\ dashResults' = finalResults(dashVariant, dashRuns)
    /\ modelProgress' = IF dashVariant = "tsx" THEN modelProgress ELSE finalProgress(dashRuns)
    /\ compareCalls' = [compareCalls EXCEPT !.inFlight = @ - 1]
    /\ UNCHANGED <<dashVariant, dashSelected, dashHistory, rendered, dashRuns, reported, dashSteps, comparisons>>
    /\ UNCHANGED notDashVars

NextDashboard ==
    \/ DashCompareStart
    \/ DashCompareRefused
    \/ DashProgressCallback
    \/ DashProgressEvent
    \/ DashTick
    \/ DashRender
    \/ DashRunResolve
    \/ DashRunReject
    \/ DashCompareEnd

(***************************************************************************)
(* The tick effect of the dashboard in time.  Times are in milliseconds    *)
(* and relative: what the interval callback would compute, and how long    *)
(* the interval has to go.                                                 *)
(***************************************************************************)
\* the time between two looks at the clock
TimeQuantum == updateInterval \div 5

\* how late the browser may run an interval callback
MaxLate == TimeQuantum

\* the longest time the model measures since the latest tick point
MaxSinceTick == 4 * updateInterval

\* the smaller of two times
MinTime(a, b) == IF a < b THEN a ELSE b

TickIdle ==
    /\ tickComparing = FALSE
    /\ toFire = 0
    /\ sinceUpdate = 0
    /\ sinceTick = 0
    /\ renderDue = FALSE

\* the dashboard is mounted and no comparison runs
InitTick ==
    /\ tickComparing = FALSE
    /\ toFire = 0
    /\ sinceUpdate = 0
    /\ sinceTick = 0
    /\ renderDue = FALSE

\* the effect body: lastUpdate = performance.now(), setInterval(..., updateInterval)
effectRun ==
    /\ toFire' = updateInterval
    /\ sinceUpdate' = 0

\* handleCompare sets isComparing and React renders: the tick effect runs
TickCompareStart ==
    /\ ~tickComparing
    /\ tickComparing' = TRUE
    /\ effectRun
    /\ sinceTick' = 0
    /\ renderDue' = FALSE
    /\ UNCHANGED notTickVars

\* time passes: React renders before it does, and an interval callback is not
\* later than MaxLate
TimePasses ==
    /\ tickComparing
    /\ ~renderDue
    /\ toFire - TimeQuantum >= 0 - MaxLate
    /\ toFire' = toFire - TimeQuantum
    /\ sinceUpdate' = MinTime(sinceUpdate + TimeQuantum, MaxSinceTick)
    /\ sinceTick' = MinTime(sinceTick + TimeQuantum, MaxSinceTick)
    /\ UNCHANGED <<tickComparing, renderDue>>
    /\ UNCHANGED notTickVars

\* the interval callback: a point is appended when its timeDiff > updateInterval
IntervalFires ==
    /\ tickComparing
    /\ toFire <= 0
    /\ toFire' = toFire + updateInterval
    /\ IF sinceUpdate > updateInterval
       THEN /\ sinceTick' = 0
            /\ sinceUpdate' = 0
       ELSE UNCHANGED <<sinceTick, sinceUpdate>>
    /\ UNCHANGED <<tickComparing, renderDue>>
    /\ UNCHANGED notTickVars

\* a progress callback or a progress event calls setModelProgress
ProgressArrives ==
    /\ tickComparing
    /\ ~renderDue
    /\ renderDue' = TRUE
    /\ UNCHANGED <<tickComparing, toFire, sinceUpdate, sinceTick>>
    /\ UNCHANGED notTickVars

\* React renders the new modelProgress: the tick effect depends on it, its
\* cleanup clears the interval and the effect runs again
TickRender ==
    /\ tickComparing
    /\ renderDue
    /\ renderDue' = FALSE
    /\ effectRun
    /\ UNCHANGED <<tickComparing, sinceTick>>
    /\ UNCHANGED notTickVars

\* the finally block of handleCompare and the render after it: the cleanup
\* clears the interval, the times stand as they were
TickCompareEnd ==
    /\ tickComparing
    /\ tickComparing' = FALSE
    /\ renderDue' = FALSE
    /\ UNCHANGED <<toFire, sinceUpdate, sinceTick>>
    /\ UNCHANGED notTickVars

NextTick ==
    \/ TickCompareStart
    \/ TimePasses
    \/ IntervalFires
    \/ ProgressArrives
    \/ TickRender
    \/ TickCompareEnd


(***************************************************************************)
(* The services of ComparisonService: updateConfigs builds one service per *)
(* enabled configuration, each service loads the information of the models  *)
(* of its endpoint, compareModels looks a service up for each configuration *)
(* and dispatches the progress of the run as 'model-progress' events.       *)
(***************************************************************************)
OllamaOrder == <<"o1", "o2">>

OllamaIds == {OllamaOrder[i] : i \in 1..Len(OllamaOrder)}

\* the models the endpoints serve
ModelNames == {"llama", "phi"}

NoConfig == [state |-> "absent", modelName |-> "none"]

\* a configuration of the settings: enabled or not, for one model
PoolConfigs ==
    {NoConfig} \cup {[state |-> st, modelName |-> m] : st \in {"enabled", "disabled"}, m \in ModelNames}

\* new OllamaService(config): modelInfo = {}
newService(c) == [config |-> c, modelInfo |-> {}]

\* s.getModelInfo(modelName)?.name === modelName
infoNames(s, modelName) == modelName \in s.modelInfo /\ namesInfo

\* this.services.ollama.findIndex(...): the first index that passes, 0 for -1
findIndex(services, modelName) ==
    IF \E i \in 1..Len(services) : infoNames(services[i], modelName)
    THEN CHOOSE i \in 1..Len(services) :
             /\ infoNames(services[i], modelName)
             /\ \A j \in 1..(i - 1) : ~infoNames(services[j], modelName)
    ELSE 0

\* the service that issues the request of configuration c, and the list after
\* the lookup: a service found is used, otherwise one is built and pushed
lookup(services, c, config) ==
    LET serviceIndex == findIndex(services, config.modelName)
    IN  IF serviceIndex = 0
        THEN [service |-> newService(c), services |-> Append(services, newService(c))]
        ELSE [service |-> services[serviceIndex], services |-> services]

\* the list after compareModels mapped over the configurations order
RECURSIVE servicesAfter(_, _, _)
servicesAfter(services, configs, order) ==
    IF order = <<>> THEN services
    ELSE IF configs[Head(order)] = NoConfig THEN servicesAfter(services, configs, Tail(order))
    ELSE servicesAfter(lookup(services, Head(order), configs[Head(order)]).services, configs, Tail(order))

\* the service configuration c got in that pass
RECURSIVE serviceFor(_, _, _, _)
serviceFor(services, configs, order, c) ==
    IF Head(order) = c THEN lookup(services, c, configs[c]).service
    ELSE IF configs[Head(order)] = NoConfig THEN serviceFor(services, configs, Tail(order), c)
    ELSE serviceFor(lookup(services, Head(order), configs[Head(order)]).services, configs, Tail(order), c)

\* the services updateConfigs builds: one per enabled configuration, in order
RECURSIVE builtServices(_, _)
builtServices(configs, order) ==
    IF order = <<>> THEN <<>>
    ELSE (IF configs[Head(order)].state = "enabled" THEN <<newService(Head(order))>> ELSE <<>>)
         \o builtServices(configs, Tail(order))

\* how many compareModels calls and streamed events the model follows, and how
\* long the list of services may get
MaxPoolCompares == 2

MaxStreamEvents == 1

MaxServices == 3

NoPoolRun == [state |-> "none", by |-> "none", events |-> <<>>]

PoolIdle ==
    /\ poolConfigs = [c \in OllamaIds |-> NoConfig]
    /\ namesInfo = FALSE
    /\ poolServices = <<>>
    /\ poolRuns = [c \in OllamaIds |-> NoPoolRun]
    /\ poolCompares = 0

\* the ComparisonService just constructed
InitPool ==
    /\ poolConfigs = [c \in OllamaIds |-> NoConfig]
    /\ namesInfo \in BOOLEAN
    /\ poolServices = <<>>
    /\ poolRuns = [c \in OllamaIds |-> NoPoolRun]
    /\ poolCompares = 0

\* no run of the latest comparison is in flight
poolSettled == \A c \in OllamaIds : poolRuns[c].state # "running"

\* updateConfigs(configs), between two comparisons
updateConfigs ==
    /\ poolSettled
    /\ poolCompares < MaxPoolCompares
    /\ \E configs \in [OllamaIds -> PoolConfigs] :
          /\ configs # poolConfigs
          /\ poolConfigs' = configs
          /\ poolServices' = builtServices(configs, OllamaOrder)
    /\ UNCHANGED <<namesInfo, poolRuns, poolCompares>>
    /\ UNCHANGED notPoolVars

\* loadModelInfo of a service: fetchModelInfo stored the answer for one model
fetchModelInfo ==
    /\ \E i \in 1..Len(poolServices), modelName \in ModelNames :
          /\ modelName \notin poolServices[i].modelInfo
          /\ poolServices' = [poolServices EXCEPT ![i].modelInfo = @ \cup {modelName}]
    /\ UNCHANGED <<poolConfigs, namesInfo, poolRuns, poolCompares>>
    /\ UNCHANGED notPoolVars

\* compareModels up to the awaits: for every configuration the lookup and the
\* call of generateCompletion on the service it gave
compareModels ==
    /\ poolSettled
    /\ poolCompares < MaxPoolCompares
    /\ \E c \in OllamaIds : poolConfigs[c] # NoConfig
    /\ Len(servicesAfter(poolServices, poolConfigs, OllamaOrder)) <= MaxServices
    /\ poolCompares' = poolCompares + 1
    /\ poolServices' = servicesAfter(poolServices, poolConfigs, OllamaOrder)
    /\ poolRuns' = [c \in OllamaIds |->
                      IF poolConfigs[c] = NoConfig THEN NoPoolRun
                      ELSE [state |-> "running",
                            by |-> serviceFor(poolServices, poolConfigs, OllamaOrder, c).config,
                            events |-> <<>>]]
    /\ UNCHANGED <<poolConfigs, namesInfo>>
    /\ UNCHANGED notPoolVars

\* progressCallback(progress, metrics): one 'model-progress' event
dispatched(events, progress) == Append(events, progress)

\* a record of the stream: onProgress(Math.min(progress, 0.99), metrics)
PoolStream ==
    /\ \E c \in OllamaIds :
          /\ poolRuns[c].state = "running"
          /\ Len(poolRuns[c].events) < MaxStreamEvents
          /\ poolRuns' = [poolRuns EXCEPT ![c].events = dispatched(@, Cap99)]
    /\ UNCHANGED <<poolConfigs, namesInfo, poolServices, poolCompares>>
    /\ UNCHANGED notPoolVars

\* generateCompletion ends with onProgress(1, finalMetrics) and resolves;
\* compareModels goes on with progressCallback(1, metrics)
PoolResolve ==
    /\ \E c \in OllamaIds :
          /\ poolRuns[c].state = "running"
          /\ poolRuns' = [poolRuns EXCEPT ![c].state = "ok",
                                          ![c].events = dispatched(dispatched(@, V(1)), V(1))]
    /\ UNCHANGED <<poolConfigs, namesInfo, poolServices, poolCompares>>
    /\ UNCHANGED notPoolVars

\* generateCompletion rejects: the catch builds the error response
PoolReject ==
    /\ \E c \in OllamaIds :
          /\ poolRuns[c].state = "running"
          /\ poolRuns' = [poolRuns EXCEPT ![c].state = "failed"]
    /\ UNCHANGED <<poolConfigs, namesInfo, poolServices, poolCompares>>
    /\ UNCHANGED notPoolVars

NextPool ==
    \/ updateConfigs
    \/ fetchModelInfo
    \/ compareModels
    \/ PoolStream
    \/ PoolResolve
    \/ PoolReject


(***************************************************************************)
(* The GGUF server registry (server/index.ts): the start, stop and status  *)
(* endpoints and the 'close' event of each spawned process.                *)
(***************************************************************************)
\* the port of a request body: left out, or given; the keys of ggufServers
RequestPorts == {"undefined", "8080", "8081"}

\* port || 8080
serverPort(port) == IF port = "undefined" THEN "8080" ELSE port

Ports == {serverPort(port) : port \in RequestPorts}

\* how many processes the model spawns
MaxProcs == 3

NoReply == [op |-> "none", status |-> "none", running |-> FALSE]

\* the processes alive on a port
runningOn(port) ==
    {p \in 1..Len(procs) : procs[p].port = port /\ procs[p].state = "running"}

GgufIdle ==
    /\ ggufServers = [port \in Ports |-> 0]
    /\ procs = <<>>
    /\ ggufReply = NoReply

\* the server just started: const ggufServers = {}
InitGguf ==
    /\ ggufServers = [port \in Ports |-> 0]
    /\ procs = <<>>
    /\ ggufReply = NoReply

\* POST /api/gguf/start
GgufStart ==
    /\ \E port \in RequestPorts :
          IF ggufServers[serverPort(port)] # 0
          THEN /\ ggufReply' = [op |-> "start", status |-> "refused", running |-> FALSE]
               /\ ggufReply' # ggufReply
               /\ UNCHANGED <<ggufServers, procs>>
          ELSE /\ Len(procs) < MaxProcs
               /\ procs' = Append(procs, [port |-> serverPort(port), state |-> "running"])
               /\ ggufServers' = [ggufServers EXCEPT ![serverPort(port)] = Len(procs')]
               /\ ggufReply' = [op |-> "start", status |-> "ok", running |-> FALSE]
    /\ UNCHANGED notGgufVars

\* server.kill(): the signal is sent, the 'close' event comes later
kill(ps, p) == [ps EXCEPT ![p].state = IF @ = "running" THEN "killed" ELSE @]

\* POST /api/gguf/stop
GgufStop ==
    /\ \E port \in RequestPorts :
          IF ggufServers[serverPort(port)] = 0
          THEN /\ ggufReply' = [op |-> "stop", status |-> "refused", running |-> FALSE]
               /\ ggufReply' # ggufReply
               /\ UNCHANGED <<ggufServers, procs>>
          ELSE /\ procs' = kill(procs, ggufServers[serverPort(port)])
               /\ ggufServers' = [ggufServers EXCEPT ![serverPort(port)] = 0]
               /\ ggufReply' = [op |-> "stop", status |-> "ok", running |-> FALSE]
    /\ UNCHANGED notGgufVars

\* GET /api/gguf/status
GgufStatus ==
    /\ \E port \in RequestPorts :
          ggufReply' = [op |-> "status", status |-> "ok", running |-> ggufServers[serverPort(port)] # 0]
    /\ ggufReply' # ggufReply
    /\ UNCHANGED <<ggufServers, procs>>
    /\ UNCHANGED notGgufVars

\* server.on('close'): a process that was killed or ended by itself has closed;
\* the handler deletes the entry of the port it was started on
GgufClose ==
    /\ \E p \in 1..Len(procs) :
          /\ procs[p].state \in {"running", "killed"}
          /\ procs' = [procs EXCEPT ![p].state = "closed"]
          /\ ggufServers' = [ggufServers EXCEPT ![procs[p].port] = 0]
    /\ UNCHANGED ggufReply
    /\ UNCHANGED notGgufVars

NextGguf ==
    \/ GgufStart
    \/ GgufStop
    \/ GgufStatus
    \/ GgufClose

(***************************************************************************)
(* The specifications.                                                     *)
(***************************************************************************)
InitStream == InitRun /\ CorIdle /\ CmpIdle /\ BufIdle /\ ChartIdle /\ DashIdle /\ TickIdle /\ PoolIdle /\ GgufIdle

SpecStream == InitStream /\ [][NextRun]_vars

InitCor == InitCorrector /\ RunIdle /\ CmpIdle /\ BufIdle /\ ChartIdle /\ DashIdle /\ TickIdle /\ PoolIdle /\ GgufIdle

SpecCorrector == InitCor /\ [][NextCorrector]_vars

InitCmp == InitCompare /\ CorIdle /\ RunIdle /\ BufIdle /\ ChartIdle /\ DashIdle /\ TickIdle /\ PoolIdle /\ GgufIdle

SpecCompare == InitCmp /\ [][NextCompare]_vars

InitBuf == InitBuffer /\ CorIdle /\ RunIdle /\ CmpIdle /\ ChartIdle /\ DashIdle /\ TickIdle /\ PoolIdle /\ GgufIdle

SpecBuffer == InitBuf /\ [][NextBuffer]_vars

InitCh == InitChart /\ CorIdle /\ RunIdle /\ CmpIdle /\ BufIdle /\ DashIdle /\ TickIdle /\ PoolIdle /\ GgufIdle

SpecChart == InitCh /\ [][NextChart]_vars

InitDash == InitDashboard /\ CorIdle /\ RunIdle /\ CmpIdle /\ BufIdle /\ ChartIdle /\ TickIdle /\ PoolIdle /\ GgufIdle

SpecDashboard == InitDash /\ [][NextDashboard]_vars

\* every request settles, and handleCompare goes on once its promises settled
SpecDashboardLive ==
    /\ SpecDashboard
    /\ WF_vars(DashRunResolve \/ DashRunReject)
    /\ WF_vars(DashCompareEnd)

InitTk == InitTick /\ CorIdle /\ RunIdle /\ CmpIdle /\ BufIdle /\ ChartIdle /\ DashIdle /\ PoolIdle /\ GgufIdle

SpecTick == InitTk /\ [][NextTick]_vars

InitSvc == InitPool /\ CorIdle /\ RunIdle /\ CmpIdle /\ BufIdle /\ ChartIdle /\ DashIdle /\ TickIdle /\ GgufIdle

SpecServices == InitSvc /\ [][NextPool]_vars

InitReg == InitGguf /\ CorIdle /\ RunIdle /\ CmpIdle /\ BufIdle /\ ChartIdle /\ DashIdle /\ TickIdle /\ PoolIdle

SpecGguf == InitReg /\ [][NextGguf]_vars

(***************************************************************************)
(* Claims about the corrector (SpecCorrector).                             *)
(***************************************************************************)
\* the least k with len <= 4 * k: ceil(len / 4), stated without the code's division
CeilQuarter(len) == CHOOSE k \in 0..len : 4 * k >= len /\ (k = 0 \/ 4 * (k - 1) < len)

\* C2: whenever promptEvalCount is present, the corrector returns
\* promptTokens = promptEvalCount - completionTokens and totalTokens = promptEvalCount
\* if promptEvalCount >= completionTokens, and otherwise promptTokens =
\* max(0, promptEvalCount) and totalTokens = promptTokens + completionTokens, where
\* completionTokens is evalCount when present and ceil(len(generatedText)/4) otherwise
\* (20 and 8 give 12 and 20; 5 and 8 give 5, 8 and 13).
C2_PromptCorrection ==
    (corPc = "done" /\ corStats.prompt_eval_count # Undefined) =>
        LET pec == corStats.prompt_eval_count.n
            ct == IF corStats.eval_count # Undefined THEN corStats.eval_count.n
                  ELSE CeilQuarter(corText)
            m == corMetrics
        IN  /\ m.completionTokens = V(ct)
            /\ pec >= ct => m.promptTokens = V(pec - ct) /\ m.totalTokens = V(pec)
            /\ pec < ct =>
                /\ m.promptTokens = V(IF pec > 0 THEN pec ELSE 0)
                /\ m.totalTokens = V((IF pec > 0 THEN pec ELSE 0) + ct)
            /\ (pec = 20 /\ ct = 8) => m.promptTokens = V(12) /\ m.totalTokens = V(20)
            /\ (pec = 5 /\ ct = 8) => m.promptTokens = V(5) /\ m.totalTokens = V(13)

\* C2's case: the corrector has run on promptEvalCount 5 and an absent evalCount with
\* 8 estimated completion tokens (the inversion), and on that input returned 5 and 13
C2_Witness ==
    /\ corPc = "done"
    /\ corStats.prompt_eval_count = V(5)
    /\ corStats.eval_count = Undefined
    /\ corText = 29
    /\ corMetrics.completionTokens = V(8)
    /\ corMetrics.promptTokens = V(5)
    /\ corMetrics.totalTokens = V(13)

(***************************************************************************)
(* Claims about one run of generateCompletion (SpecStream).                *)
(***************************************************************************)
\* a Metrics value with promptTokens >= 0, completionTokens >= 0,
\* totalTokens = promptTokens + completionTokens, tokensPerSecond finite and >= 0
WellFormed(m) ==
    /\ IsInt(m.promptTokens) /\ m.promptTokens.n >= 0
    /\ IsInt(m.completionTokens) /\ m.completionTokens.n >= 0
    /\ IsInt(m.totalTokens) /\ m.totalTokens.n = m.promptTokens.n + m.completionTokens.n
    /\ isFinite(m.tokensPerSecond) /\ JsGe0(m.tokensPerSecond)

\* C1: every Metrics value delivered through onProgress or returned by
\* generateCompletion, whatever fields the raw statistics carry, has
\* promptTokens >= 0, completionTokens >= 0, totalTokens = promptTokens +
\* completionTokens, and tokensPerSecond finite and >= 0.
C1_MetricsWellFormed ==
    /\ lastCall.kind # "none" => WellFormed(lastCall.metrics)
    /\ pc = "resolved" => WellFormed(result)

\* C3: when the stream ended with a terminal record that carries both counts,
\* the Metrics generateCompletion returns have the token counts the corrector
\* computes from that record; for prompt_eval_count 5 and eval_count 8 they are
\* promptTokens 5, completionTokens 8, totalTokens 13.
C3_TerminalEqualsCorrector ==
    (/\ pc = "resolved"
     /\ IsOllama(svc)
     /\ terminal.seen
     /\ IsInt(terminal.stats.eval_count)
     /\ IsInt(terminal.stats.prompt_eval_count)) =>
        LET m == calculateMetrics(terminal.stats, V(now), 0)
        IN  /\ result.promptTokens = m.promptTokens
            /\ result.completionTokens = m.completionTokens
            /\ result.totalTokens = m.totalTokens
            /\ (terminal.stats.prompt_eval_count = V(5) /\ terminal.stats.eval_count = V(8)) =>
                  /\ result.promptTokens = V(5)
                  /\ result.completionTokens = V(8)
                  /\ result.totalTokens = V(13)

\* min(0.99, count / limit) as a number of the program
MinCap99(count, limit) ==
    IF 100 * count < 99 * limit THEN [t |-> "num", n |-> count, s |-> 1, d |-> limit]
    ELSE Cap99

\* C7: a streamed progress callback reports min(0.99, completion tokens so far /
\* configured maxTokens); a fraction of exactly 1.0 is reported only after the
\* stream ended with its terminal record, and never for a run that fails.
C7_ProgressFraction ==
    /\ lastCall.kind = "stream" =>
          lastCall.progress =
              MinCap99(lastCall.metrics.completionTokens.n,
                       IF Truthy(maxTokens) THEN maxTokens.n ELSE DefaultMaxTokens)
    /\ lastCall.progress = V(1) =>
          /\ pc # "rejected"
          /\ IsOllama(svc) => terminal.seen

\* C8: two consecutive streamed progress deliveries of one run are at least
\* 50 ms apart, and the final report is delivered whenever the run resolves.
C8_ProgressThrottled ==
    /\ (lastCall.kind = "stream" /\ prevCall.kind = "stream") =>
          lastCall.at - prevCall.at >= ThrottleMs
    /\ pc = "resolved" => lastCall.kind = "final"

FailedConfigs == {c \in definedIn(svcConfigs) : endpoint[c] = "fail"}

\* the entries of the result list that belong to configuration c
EntriesOf(c) == {i \in 1..Len(cmpResult.responses) : cmpResult.responses[i].id = c}

AllZero(m) ==
    /\ m.responseTime = V(0)
    /\ m.tokensPerSecond = V(0)
    /\ m.totalTokens = V(0)
    /\ m.promptTokens = V(0)
    /\ m.completionTokens = V(0)

\* C4: the result of compareModels has exactly one entry per configuration; the
\* entry of a configuration whose run failed has error set and all-zero metrics,
\* every other entry carries the metrics its run returned, and errors holds
\* exactly one message per failed configuration.
C4_OneEntryPerConfig ==
    (dashboard = "service" /\ cmpPc = "resolved") =>
        /\ Len(cmpResult.responses) = Cardinality(definedIn(svcConfigs))
        /\ \A c \in definedIn(svcConfigs) :
              /\ Cardinality(EntriesOf(c)) = 1
              /\ \A i \in EntriesOf(c) :
                    IF c \in FailedConfigs
                    THEN cmpResult.responses[i].error /\ AllZero(cmpResult.responses[i].metrics)
                    ELSE /\ ~cmpResult.responses[i].error
                         /\ cmpResult.responses[i].metrics = returnedMetrics(endpoint[c])
        /\ Len(cmpResult.errors) = Cardinality(FailedConfigs)
        /\ \A c \in FailedConfigs :
              Cardinality({i \in 1..Len(cmpResult.errors) : cmpResult.errors[i] = c}) = 1
        /\ cmpResult.errorsDefined = (FailedConfigs # {})

\* two configurations, one run failed: two responses, one error-tagged, one message
C4_Witness ==
    /\ dashboard = "service"
    /\ cmpPc = "resolved"
    /\ definedIn(svcConfigs) = {"o1", "a1"}
    /\ endpoint["o1"] = "fail"
    /\ endpoint["a1"] = "A"
    /\ Len(cmpResult.responses) = 2
    /\ cmpResult.responses[1].error
    /\ cmpResult.responses[2].metrics = MetricsA
    /\ Len(cmpResult.errors) = 1

\* C5: compareModels never rejects, whichever runs fail and in whatever order
\* the runs settle, and a failed run changes no sibling: a sibling still
\* pending stays pending, and a sibling that returned has an entry with the
\* metrics its endpoint gave.
C5_NeverRejects ==
    dashboard = "service" =>
        /\ cmpPc # "rejected"
        /\ \A c \in CfgIds : runs[c] # "thrown"
        /\ \A c \in CfgIds :
              (runs[c] = "ok") => responses[c] = okResponse(c, returnedMetrics(endpoint[c]))
        /\ \A c \in CfgIds :
              (runs[c] = "pending") => responses[c] = NoResponseYet
        /\ cmpPc = "resolved" =>
              \A c \in definedIn(svcConfigs) :
                  endpoint[c] # "fail" =>
                      \E i \in EntriesOf(c) :
                          cmpResult.responses[i] = okResponse(c, returnedMetrics(endpoint[c]))

\* two runs failed, the later configuration first, and the third run returned
C5_Witness ==
    /\ dashboard = "service"
    /\ cmpPc = "resolved"
    /\ cmpResult.errors = <<"a1", "o1">>
    /\ runs["o2"] = "ok"
    /\ cmpResult.responses[2] = okResponse("o2", MetricsB)

\* C6: a comparison starts a run for exactly the configurations that are
\* enabled and selected when Compare is pressed.
C6_RunsEnabledSelected ==
    cmpPc # "idle" => {c \in CfgIds : runs[c] # "none"} = modelsToCompare

(***************************************************************************)
(* Claims about the performance-history buffer (SpecBuffer).               *)
(***************************************************************************)
\* the points numbered from a to b, in order
PointsFromTo(a, b) == [i \in 1..(b - a + 1) |-> a + i - 1]

\* C10: after any sequence of appends by ticks and progress events the buffer
\* holds at most 100 points; once more than 100 points were appended it holds
\* exactly the 100 most recently appended ones, in the order of the appends.
C10_BufferBounded ==
    /\ Len(performanceHistory) <= maxPoints
    /\ appended <= maxPoints => performanceHistory = PointsFromTo(1, appended)
    /\ appended > maxPoints =>
          performanceHistory = PointsFromTo(appended - maxPoints + 1, appended)

(***************************************************************************)
(* Claims about the chart preprocessor (SpecChart).                        *)
(***************************************************************************)
\* C11: the chart preprocessor returns no points for an empty buffer, and for a
\* buffer of exactly one point it returns exactly two points with identical
\* model values whose timestamps differ by exactly 100 ms.
C11_DegenerateBuffers ==
    chartPc = "done" =>
        /\ Len(chartData) = 0 => chartOut = <<>>
        /\ Len(chartData) = 1 =>
              /\ Len(chartOut) = 2
              /\ chartOut[1].vals = chartOut[2].vals
              /\ chartOut[1].vals = chartData[1].vals
              /\ chartOut[2].timestamp - chartOut[1].timestamp = 100

\* a buffer of one point with a value of model A was rendered as two points
C11_Witness ==
    /\ chartPc = "done"
    /\ Len(chartData) = 1
    /\ chartData[1].vals["A"] = ChartNum(10, 1)
    /\ Len(chartOut) = 2
    /\ chartOut[2].vals["A"] = ChartNum(10, 1)
    /\ chartOut[2].timestamp = chartData[1].timestamp + 100

\* the model keys a chart shows for the buffer: those on some input point, and
\* in selectedModels when a selection is given
ShownKeys ==
    {k \in ChartKeys :
        /\ \E i \in 1..Len(chartData) : chartData[i].vals[k].t # "undef"
        /\ (chartSelected = {} \/ k \in chartSelected)}

\* C12: every point the chart preprocessor outputs carries every model key that
\* occurs in any input point, and each input point appears in the output with
\* its own value where it has one and null where it has none (model A at t0 and
\* t2, model B only at t1: null at A's t1 and at B's t0 and t2).
C12_UnionOfKeys ==
    (chartPc = "done" /\ Len(chartData) >= 2) =>
        /\ \A j \in 1..Len(chartOut) : \A k \in ShownKeys : chartOut[j].vals[k].t # "undef"
        /\ \A i \in 1..Len(chartData) :
              \E j \in 1..Len(chartOut) :
                  /\ chartOut[j].timestamp = chartData[i].timestamp
                  /\ \A k \in ShownKeys :
                        chartOut[j].vals[k] =
                            IF chartData[i].vals[k].t # "undef" THEN chartData[i].vals[k]
                            ELSE ChartNull

\* C13 as stated: whatever the order of the points in the input buffer, the
\* output of the chart preprocessor is in strictly increasing timestamp order,
\* interpolated points included.
C13_StrictlyIncreasing ==
    chartPc = "done" =>
        \A j \in 1..(Len(chartOut) - 1) : chartOut[j].timestamp < chartOut[j + 1].timestamp

\* C13 amended: whatever the order of the points in the input buffer, the
\* output is in non-decreasing timestamp order, interpolated points included,
\* and in strictly increasing order when no two input points share a timestamp.
C13_Chronological ==
    chartPc = "done" =>
        /\ \A j \in 1..(Len(chartOut) - 1) : chartOut[j].timestamp <= chartOut[j + 1].timestamp
        /\ (\A a, b \in 1..Len(chartData) :
                a # b => chartData[a].timestamp # chartData[b].timestamp) =>
              \A j \in 1..(Len(chartOut) - 1) : chartOut[j].timestamp < chartOut[j + 1].timestamp

\* a buffer whose later point comes first was rendered with interpolated points
C13_Witness ==
    /\ chartPc = "done"
    /\ chartVariant = "tsx"
    /\ Len(chartData) = 3
    /\ chartData[1].timestamp = 1300
    /\ chartData[2].timestamp = 0
    /\ chartData[3].timestamp = 220
    /\ Len(chartOut) > 3
    /\ chartOut[1].timestamp = 0
    /\ chartOut[Len(chartOut)].timestamp = 1300

(***************************************************************************)
(* Further claims about the corrector (SpecCorrector).                     *)
(***************************************************************************)
\* two numbers of the program that are equal: both zero, or the same quotient
SameNumber(a, b) ==
    /\ IsNum(a)
    /\ IsNum(b)
    /\ \/ a.n = 0 /\ b.n = 0
       \/ a.n = b.n /\ a.s = b.s /\ a.d = b.d

\* completionTokens / seconds, and 0 when that quotient is not finite
ClampedRate(count, seconds) ==
    IF isFinite(JsDiv(count, seconds)) THEN JsDiv(count, seconds) ELSE V(0)

\* C14: the corrector's tokensPerSecond is completionTokens divided by
\* eval_duration / 1e9 when eval_duration is present and by the elapsed wall
\* time otherwise, and 0 when that quotient is not finite.
C14_Throughput ==
    corPc = "done" =>
        SameNumber(corMetrics.tokensPerSecond,
                   IF corStats.eval_duration # Undefined
                   THEN ClampedRate(corMetrics.completionTokens,
                                    JsOver(corStats.eval_duration, NsPerSec))
                   ELSE ClampedRate(corMetrics.completionTokens,
                                    JsOver(corResponseTime, MsPerSec)))

\* the timestamps of the input points
InputTimes == {chartData[i].timestamp : i \in 1..Len(chartData)}

\* the output point j is none of the input points
Synthetic(j) == chartOut[j].timestamp \notin InputTimes

\* the real output points next to the synthetic point j
RealBefore(j) == CHOOSE i \in 1..(j - 1) : ~Synthetic(i) /\ \A x \in (i + 1)..(j - 1) : Synthetic(x)

RealAfter(j) == CHOOSE i \in (j + 1)..Len(chartOut) : ~Synthetic(i) /\ \A x \in (j + 1)..(i - 1) : Synthetic(x)

\* a <= b for two chart numbers
ChartLe(a, b) == a.n * b.d <= b.n * a.d

\* C24: PerformanceChart.tsx puts synthetic points between two consecutive
\* real points only when their times are more than 100 ms (two time steps)
\* apart, at most 20 of them in one gap, and every interpolated value lies in
\* the closed range of the two real values it is interpolated between.
C24_Interpolation ==
    (chartPc = "done" /\ chartVariant = "tsx" /\ Len(chartData) >= 2) =>
        \A j \in 1..Len(chartOut) :
            Synthetic(j) =>
                LET lo == chartOut[RealBefore(j)]
                    hi == chartOut[RealAfter(j)]
                    mid == chartOut[j]
                IN  /\ hi.timestamp - lo.timestamp > 2 * timeStep
                    /\ Cardinality({x \in 1..Len(chartOut) : Synthetic(x) /\ RealBefore(x) = RealBefore(j)}) <= MaxSteps
                    /\ \A k \in ChartKeys :
                          (lo.vals[k].t = "num" /\ hi.vals[k].t = "num") =>
                              /\ mid.vals[k].t = "num"
                              /\ \/ ChartLe(lo.vals[k], mid.vals[k]) /\ ChartLe(mid.vals[k], hi.vals[k])
                                 \/ ChartLe(hi.vals[k], mid.vals[k]) /\ ChartLe(mid.vals[k], lo.vals[k])

\* a gap of 1300 ms between a point with A = 10 and a point with A = 30 was
\* filled with 19 points, the first of them strictly between the two values,
\* and a gap of exactly 100 ms before it was left empty
C24_Witness ==
    /\ chartPc = "done"
    /\ chartVariant = "tsx"
    /\ Len(chartData) = 3
    /\ chartData[1] = DataPoint(0, ChartNum(10, 1), ChartAbsent)
    /\ chartData[2] = DataPoint(100, ChartNum(10, 1), ChartAbsent)
    /\ chartData[3] = DataPoint(1300, ChartNum(30, 1), ChartNum(20, 1))
    /\ Len(chartOut) = 22
    /\ chartOut[2].timestamp = 100
    /\ Synthetic(3)
    /\ ~ChartLe(chartOut[3].vals["A"], ChartNum(10, 1))
    /\ ~ChartLe(ChartNum(30, 1), chartOut[3].vals["A"])

\* C25: when the statistics carry no prompt_eval_count, the corrector returns
\* promptTokens = ceil(len(prompt) / 4), estimated from the prompt, and
\* totalTokens = promptTokens + completionTokens.
C25_PromptEstimate ==
    (corPc = "done" /\ corStats.prompt_eval_count = Undefined) =>
        /\ corMetrics.promptTokens = V(CeilQuarter(corPrompt))
        /\ corMetrics.totalTokens = JsAdd(corMetrics.promptTokens, corMetrics.completionTokens)

(***************************************************************************)
(* Further claims about one run of generateCompletion (SpecStream).        *)
(***************************************************************************)
\* C15: a streamed line that is not parseable JSON is skipped: the step that
\* skips it changes nothing the records before it left and the loop goes on to
\* the next line or the next read, so the records after it are processed; the
\* run does not reject for it, and a run that ended with a terminal record
\* resolves with the counts and the durations of that record.
C15_MalformedSkipped ==
    /\ [][(skipped' /\ ~skipped) =>
            /\ pc' \in {"lines", "read"}
            /\ UNCHANGED <<terminal, finalResponse, lastStats, promptTokens, completionTokens, totalTokens, lastCall, prevCall, result, cause, now>>]_vars
    /\ [](skipped => cause \in {"none", "read"})
    /\ []((pc = "resolved" /\ skipped /\ terminal.seen /\ svc = "ollama13") =>
            result = finalMetrics(terminal.stats))

\* a run with a skipped line between a streamed record and the terminal record
\* resolved
C15_Witness ==
    /\ pc = "resolved"
    /\ skipped
    /\ svc = "ollama13"
    /\ terminal.seen
    /\ terminal.stats.eval_count = V(8)
    /\ prevCall.kind = "stream"
    /\ prevCall.progress # Cap99
    /\ lastCall.kind = "final"
    /\ result.completionTokens = V(8)

\* a >= b for two progress fractions
FractionGe(a, b) == a.n * a.s * b.d >= b.n * b.s * a.d

\* C23: within one run the progress fraction passed to onProgress never
\* decreases from one callback to the next: initial report, streamed reports,
\* final report.
C23_ProgressMonotone ==
    (lastCall.kind # "none" /\ prevCall.kind # "none") =>
        FractionGe(lastCall.progress, prevCall.progress)

\* C26: the records generateCompletion processes and the Metrics it returns
\* do not depend on where the chunks of the body end: a run that resolved has
\* parsed every record of the body, and an ollama13 run whose body has a
\* terminal record resolved with the metrics of that record.
C26_ChunkingIrrelevant ==
    pc = "resolved" =>
        /\ ~body.cut
        /\ (svc = "ollama13" /\ body.terminal.seen) => result = finalMetrics(body.terminal.stats)

(***************************************************************************)
(* Claims about the live state of the dashboard (SpecDashboard).           *)
(***************************************************************************)
\* C16: the step that starts a comparison leaves the buffer holding exactly
\* one point, the baseline point, and that point carries no value of any
\* model: nothing of the comparison before it is left in it.
C16_BaselineClean ==
    [][(~dashComparing /\ dashComparing') =>
          /\ Len(dashHistory') = 1
          /\ dashHistory'[1].by = "baseline"
          /\ \A m \in DashIds : dashHistory'[1].values[m] = Undefined]_vars

\* the partial metrics of a run are gone from an entry
NoPartialMetrics(entry) == entry.metrics \in {Undefined, V(0)}

\* C17: a model whose run failed, as when reading its body fails mid-stream,
\* has a complete RunProgress entry without the metrics reported before the
\* failure, and once the comparison ended its final result is present,
\* error-tagged and has tokensPerSecond 0.
C17_FailureDiscardsPartial ==
    \A m \in DashIds :
        dashRuns[m].state = "failed" =>
            /\ modelProgress[m].isComplete => NoPartialMetrics(modelProgress[m])
            /\ ~dashComparing =>
                  /\ modelProgress[m].isComplete
                  /\ dashResults[m].present
                  /\ dashResults[m].error
                  /\ dashResults[m].tokensPerSecond = V(0)

\* C18: a progress event whose modelId is not the id of a model of the
\* dashboard is dropped: no point of the buffer was appended for such an
\* event and modelProgress has no entry under such an id.
C18_UnknownEventDropped ==
    /\ ~modelProgress[UnknownId].present
    /\ \A i \in 1..Len(dashHistory) : dashHistory[i].id # UnknownId

\* the models the comparison tracks: the selected ones
Tracked == dashSelected

\* C19: every point a progress event or a tick appended holds, for each tracked
\* model that had reported by then, the tokensPerSecond that model reported
\* last; a point a progress event of a tracked model appended holds the value
\* of that event, which is then the model's last report.
C19_LatestThroughput ==
    \A i \in 1..Len(dashHistory) :
        dashHistory[i].by \in {"event", "tick"} =>
            \A m \in Tracked :
                dashHistory[i].latest[m] # Undefined =>
                    dashHistory[i].values[m] = dashHistory[i].latest[m]

\* C21: once a comparison has ended, no step changes the buffer until the
\* next comparison starts: after the first comparison began, a step from no
\* comparison to no comparison leaves the buffer as it was.
C21_BufferRetained ==
    [][(comparisons > 0 /\ ~dashComparing /\ ~dashComparing') => dashHistory' = dashHistory]_vars

\* C22: when every run settles, a started comparison ends, and once it has
\* ended every model it dispatched a run for has a RunProgress entry that is
\* complete.
C22_ComparisonEnds ==
    /\ dashComparing ~> ~dashComparing
    /\ [](~dashComparing =>
            \A m \in DashIds :
                dashRuns[m].state # "none" =>
                    modelProgress[m].present /\ modelProgress[m].isComplete)

\* a comparison ended in which one run resolved and one run rejected
C22_Witness ==
    /\ ~dashComparing
    /\ \E m \in DashIds : dashRuns[m].state = "ok" /\ modelProgress[m].isComplete
    /\ \E m \in DashIds : dashRuns[m].state = "failed" /\ modelProgress[m].isComplete

TickGap == 3 * updateInterval

\* C20: while a comparison is in flight the ticks keep appending points,
\* whatever the progress callbacks and events do: the latest tick point, or
\* the start of the comparison, is never more than three intervals ago.
C20_TicksKeepComing == tickComparing => sinceTick <= TickGap


(***************************************************************************)
(* Claims about the services of ComparisonService (SpecServices).          *)
(***************************************************************************)
\* C27: the request of every configuration is issued by a service built from
\* that configuration, and the list of services never holds two services built
\* from one configuration.
C27_ServicePerConfig ==
    /\ \A c \in OllamaIds : poolRuns[c].state # "none" => poolRuns[c].by = c
    /\ \A i, j \in 1..Len(poolServices) : i # j => poolServices[i].config # poolServices[j].config

\* C28: a run that completed successfully dispatched exactly one event with
\* fraction 1, and that event is the last of the run.
C28_OneFinalEvent ==
    \A c \in OllamaIds :
        poolRuns[c].state = "ok" =>
            /\ Cardinality({i \in 1..Len(poolRuns[c].events) : poolRuns[c].events[i] = V(1)}) = 1
            /\ poolRuns[c].events[Len(poolRuns[c].events)] = V(1)


(***************************************************************************)
(* Claims about the GGUF server registry (SpecGguf).                       *)
(***************************************************************************)
\* the latest of a set of processes
Latest(ps) == CHOOSE p \in ps : \A q \in ps : q <= p

\* the registry agrees with the processes: the entry of a port is the latest
\* process running on it, and there is none when no process runs on it
EntriesCurrent ==
    \A port \in Ports :
        ggufServers[port] = IF runningOn(port) = {} THEN 0 ELSE Latest(runningOn(port))

\* C30: after every step the entry of a port is the most recently started
\* process still running on that port (no entry when none runs there), and a
\* refused start leaves the registry as it was.
C30_RegistryCurrent ==
    [][/\ EntriesCurrent'
       /\ (ggufReply' # ggufReply /\ ggufReply'.op = "start" /\ ggufReply'.status = "refused")
             => ggufServers' = ggufServers]_vars

====
